---------------------------- MODULE Spec2Model ----------------------------
(***************************************************************************)
(* Model of the commercial-offer generator's word-processing backend       *)
(* (kp_generator/render/docx_template.py): header discovery, totals        *)
(* location, row synthesis and totals reconciliation of render_kp_docx.    *)
(*                                                                         *)
(* Text.  TLC's strings are ASCII, so Cyrillic text is written letter for  *)
(* letter in Latin (one Latin letter per Cyrillic letter, so that the      *)
(* substring relation between texts is the one of the originals):          *)
(*   a=а b=б v=в g=г d=д e=е z=з i=и k=к l=л m=м n=н o=о p=п r=р s=с t=т   *)
(*   u=у c=ц h=ч w=ь x=ъ j=я q=ж f=ф y=ы ;  upper case likewise;           *)
(*   "#" stands for the numero sign and "~" for the no-break space U+00A0. *)
(* Indices.  Row and column indices are 0-based as in the source; Row and  *)
(* Cell translate them to TLA+'s 1-based sequences.                        *)
(* Money is an integer number of 1/100 (kopecks), a quantity an integer    *)
(* number of 1/100 units.                                                  *)
(***************************************************************************)
EXTENDS Integers, Sequences, FiniteSets, TLC

VARIABLES
    tables,          \* doc.tables: the document's tables, mutated in place
    items,           \* the priced items handed to render_kp_docx
    pc,              \* position of render_kp_docx
    err,             \* the error raised, "" when none
    saved,           \* TRUE once doc.save(output_path) has run
    goods,           \* 1-based position in tables of the goods table, 0 before
    header_end_row,  \* render_kp_docx: header_end_row
    col_map,         \* render_kp_docx: col_map (role -> 0-based column)
    sample_row_idx,  \* render_kp_docx: sample_row_idx
    total_rows,      \* render_kp_docx: total_rows (category -> 0-based row)
    deleted_count,   \* render_kp_docx: deleted_count
    inserted_count,  \* render_kp_docx: inserted_count
    first_total_after_delete,  \* render_kp_docx: first_total_after_delete
    target_tr,       \* identity of the row target_tr refers to, 0 for None
    company,         \* the CompanyProfile handed to render_kp_docx
    scan,            \* _find_header_row_and_colmap's locals while it scans
    orig,            \* the document as loaded (history, never read by the code)
    writes,          \* the totals writes performed (history)
    runs,            \* what each run of _find_header_row_and_colmap returned (history)
    ws,              \* excel_template: the worksheet's cells, (row, column) -> value
    xl,              \* excel_template.render_kp: header_row, col_map, after_row
    batch            \* gui._generate_worker: the variants and the loop's progress

vars == <<tables, items, pc, err, saved, goods, header_end_row, col_map,
          sample_row_idx, total_rows, deleted_count, inserted_count,
          first_total_after_delete, target_tr, company, scan, orig, writes, runs,
          ws, xl, batch>>

-----------------------------------------------------------------------------
(* Text utilities *)

\* Python's  a in b  for strings.
Contains(txt, sub) ==
    \E i \in 1..(Len(txt) - Len(sub) + 1) : SubSeq(txt, i, i + Len(sub) - 1) = sub

UpperChars == "ABVGDEZIKLMNOPRSTUCHWXJQFY"
LowerChars == "abvgdeziklmnoprstuchwxjqfy"

\* str.lower() on one character.
LowerChar(ch) ==
    IF \E i \in 1..Len(UpperChars) : SubSeq(UpperChars, i, i) = ch
    THEN LET i == CHOOSE j \in 1..Len(UpperChars) : SubSeq(UpperChars, j, j) = ch
         IN  SubSeq(LowerChars, i, i)
    ELSE ch

\* The characters \s matches, after U+00A0 ("~") has been replaced by a space.
IsSpace(ch) == ch = " " \/ ch = "~" \/ ch = "\n"

RECURSIVE NormalizeFrom(_, _, _)
\* Left-to-right pass of _normalize_text over s from position i: acc is the
\* output so far; a run of white space becomes one space, a leading run none.
NormalizeFrom(s, i, acc) ==
    IF i > Len(s) THEN acc
    ELSE LET ch == SubSeq(s, i, i) IN
         IF IsSpace(ch)
         THEN IF acc = "" \/ SubSeq(acc, Len(acc), Len(acc)) = " "
              THEN NormalizeFrom(s, i + 1, acc)
              ELSE NormalizeFrom(s, i + 1, acc \o " ")
         ELSE NormalizeFrom(s, i + 1, acc \o LowerChar(ch))

\* _normalize_text: lowercase + collapse spaces + strip.
NormalizeText(s) ==
    LET t == NormalizeFrom(s, 1, "") IN
    IF t # "" /\ SubSeq(t, Len(t), Len(t)) = " " THEN SubSeq(t, 1, Len(t) - 1) ELSE t


-----------------------------------------------------------------------------
(* Document structure: a table is a sequence of rows, a row a record with   *)
(* the identity of its <w:tr> element and its cells, a cell a sequence of   *)
(* paragraphs, a paragraph a sequence of runs [text, bold].                 *)

\* Paragraph.text: the concatenation of the runs' texts.
RECURSIVE ParagraphText(_)
ParagraphText(p) ==
    IF p = <<>> THEN "" ELSE Head(p).text \o ParagraphText(Tail(p))

\* _Cell.text: the paragraphs' texts joined by a line break.
RECURSIVE CellText(_)
CellText(cell) ==
    IF cell = <<>> THEN ""
    ELSE IF Len(cell) = 1 THEN ParagraphText(cell[1])
    ELSE ParagraphText(cell[1]) \o "\n" \o CellText(Tail(cell))

\* table.rows[i], 0-based.
Row(table, i) == table[i + 1]

\* table.rows[i].cells[c], 0-based.
Cell(table, i, c) == table[i + 1].cells[c + 1]

-----------------------------------------------------------------------------
(* Inputs: the rows templates are built from *)

\* A cell of one paragraph with one run.
TextCell(t, b) == << <<[text |-> t, bold |-> b]>> >>

\* A cell of one paragraph whose text is split over two runs.
SplitCell(t1, t2, b) == << <<[text |-> t1, bold |-> b], [text |-> t2, bold |-> FALSE]>> >>

\* A cell whose only paragraph has no run (an empty cell).
EmptyCell == << <<>> >>

\* A row's cells from the texts of its cells.
CellsOf(ts, b) == [j \in 1..Len(ts) |-> IF ts[j] = "" THEN EmptyCell ELSE TextCell(ts[j], b)]

\* Header rows: a complete one, one without an amount column, the two lines
\* of a two-row header, one with neither a price nor an amount column; and a
\* row that labels nothing.
HdrFull == CellsOf(<<"#", "Naimenovanie tovara", "Kol-vo", "Cena, rub", "Summa, rub">>, TRUE)
HdrNoAmount == CellsOf(<<"", " Usluga", "KOL.", "Cena", "">>, TRUE)
HdrTop == CellsOf(<<"#", "Naimenovanie", "Kolihestvo", "", "">>, TRUE)
HdrBottom == CellsOf(<<"", "", "", "Cena za ed.", "Stoimostw">>, TRUE)
HdrNoPrice == CellsOf(<<"#", "Naimenovanie", "Kol-vo", "Ed.", "">>, TRUE)
TitleCells == CellsOf(<<"Specifikacij", "", "", "", "">>, TRUE)

\* Body rows: the example row, a stale example row, and the totals rows.
SampleCells ==
    <<TextCell("1", FALSE), SplitCell("Pri", "mer", TRUE), TextCell("1", FALSE),
      TextCell("100,00", FALSE), TextCell("100,00", TRUE)>>
StaleCells == CellsOf(<<"2", "Obrazec", "3", "5,00", "15,00">>, FALSE)
TotalCells == CellsOf(<<"Itogo:", "", "", "", "115,00">>, TRUE)
VatCells == CellsOf(<<"V tom hisle~NDS 20%", "", "", "", "19,17">>, FALSE)
WoVatCells == CellsOf(<<"Itogo bez NDS", "", "", "", "95,83">>, FALSE)

\* The rows a template's table starts with.
Heads == {<<HdrFull>>, <<HdrNoAmount>>, <<HdrTop, HdrBottom>>, <<HdrNoPrice>>, <<TitleCells>>}

\* The rows that follow them.
BodyPool == {SampleCells, StaleCells, TotalCells, VatCells, WoVatCells}

\* The texts the cells of these rows hold.
TemplateTexts ==
    {CellText(cells[j]) :
        cells \in BodyPool \cup UNION {{h[i] : i \in 1..Len(h)} : h \in Heads},
        j \in 1..5}

\* _normalize_text of the template texts, computed once.
NormalizedMemo == [s \in TemplateTexts |-> NormalizeText(s)]

\* _normalize_text, looked up for a template text.
Normalized(s) == IF s \in DOMAIN NormalizedMemo THEN NormalizedMemo[s] ELSE NormalizeText(s)

-----------------------------------------------------------------------------
(* Header discovery *)

\* The keys of HEADER_SYNONYMS, in the dictionary's order.
Roles == <<"name", "qty", "unit", "price", "amount">>

RoleSet == {Roles[i] : i \in 1..Len(Roles)}

HEADER_SYNONYMS ==
    [name   |-> {"naimenovanie", "tovar", "usluga", "opisanie obxekta zakupki",
                 "naimenovanie tovara"},
     qty    |-> {"kolihestvo", "kol-vo", "kol vo", "kol.", "qty"},
     unit   |-> {"ed", "ed.", "edizm", "ed.izm", "edinica izmerenij"},
     price  |-> {"cena", "cena za ed", "cena za edinicu", "cena, rub"},
     amount |-> {"summa", "stoimostw", "itogo", "summa, rub"}]

\* any(syn in txt for syn in syns)
MatchesRole(txt, key) == \E syn \in HEADER_SYNONYMS[key] : Contains(txt, syn)

\* The initial locals of _find_header_row_and_colmap.
ScanStart == [col_map |-> <<>>, header_rows_found |-> <<>>]

\* The roles with a synonym in a normalized text.
MatchedRoles(txt) == {key \in RoleSet : MatchesRole(txt, key)}

\* MatchedRoles of the texts template cells hold, computed once.
MatchedRolesMemo == [txt \in {NormalizedMemo[s] : s \in TemplateTexts} |-> MatchedRoles(txt)]

\* MatchedRoles, looked up for the text of a template cell.
RolesIn(txt) ==
    IF txt \in DOMAIN MatchedRolesMemo THEN MatchedRolesMemo[txt] ELSE MatchedRoles(txt)

\* A variant that binds every matched role again, bound or not.
AllKeysAt(st, txt) == IF txt = "" THEN {} ELSE RolesIn(txt)

\* The keys the inner loop binds at one cell: those not yet in col_map with a
\* synonym in the cell's normalized text (an empty text is skipped).
NewKeysAt(st, txt) ==
    IF txt = "" THEN {}
    ELSE {key \in RolesIn(txt) : key \notin DOMAIN st.col_map}

\* The body of the loop over a row's cells, for the cell at (r, c_idx).
ScanCell(st, r, c_idx, cell) ==
    LET txt  == Normalized(CellText(cell))
        keys == NewKeysAt(st, txt)
    IN  [col_map |-> [k \in keys |-> c_idx] @@ st.col_map,
         header_rows_found |->
             st.header_rows_found \o [j \in 1..Cardinality(keys) |-> r]]

RECURSIVE ScanRowFrom(_, _, _, _)
\* for c_idx, cell in enumerate(row.cells), from c_idx on.
ScanRowFrom(st, table, r, c_idx) ==
    IF c_idx >= Len(Row(table, r).cells) THEN st
    ELSE ScanRowFrom(ScanCell(st, r, c_idx, Cell(table, r, c_idx)), table, r, c_idx + 1)

Min(a, b) == IF a < b THEN a ELSE b

SetMin(S) == CHOOSE x \in S : \A y \in S : x <= y

SetMax(S) == CHOOSE x \in S : \A y \in S : y <= x

SeqRange(s) == {s[i] : i \in 1..Len(s)}

RECURSIVE ScanRowsFrom(_, _, _, _)
\* for r in range(scan_rows), from r on.
ScanRowsFrom(st, table, scan_rows, r) ==
    IF r >= scan_rows THEN st
    ELSE ScanRowsFrom(ScanRowFrom(st, table, r, 0), table, scan_rows, r + 1)

\* A variant that requires name and qty only.
NameAndQtyOnly(cm) == "name" \in DOMAIN cm /\ "qty" \in DOMAIN cm

\* The minimal required set: name, qty, and at least one of price/amount.
MinimalSet(cm) ==
    /\ "name" \in DOMAIN cm
    /\ "qty" \in DOMAIN cm
    /\ ("price" \in DOMAIN cm \/ "amount" \in DOMAIN cm)

\* A variant whose header end row carries over from the runs before it.
HeaderResultCarried(st) ==
    IF "name" \in DOMAIN st.col_map /\ "qty" \in DOMAIN st.col_map
       /\ ("price" \in DOMAIN st.col_map \/ "amount" \in DOMAIN st.col_map)
    THEN [ok |-> TRUE,
          header_end |-> (IF st.header_rows_found # <<>>
                          THEN SetMax(SeqRange(st.header_rows_found)) ELSE 0) + Len(runs),
          col_map |-> st.col_map,
          header_start |-> IF st.header_rows_found # <<>>
                           THEN SetMin(SeqRange(st.header_rows_found)) ELSE 0]
    ELSE [ok |-> FALSE, header_end |-> 0, col_map |-> <<>>, header_start |-> 0]

\* What _find_header_row_and_colmap returns from its final locals; ok = FALSE
\* stands for the ValueError.
HeaderResult(st) ==
    IF MinimalSet(st.col_map)
    THEN [ok |-> TRUE,
          header_end |-> IF st.header_rows_found # <<>>
                         THEN SetMax(SeqRange(st.header_rows_found)) ELSE 0,
          col_map |-> st.col_map,
          header_start |-> IF st.header_rows_found # <<>>
                           THEN SetMin(SeqRange(st.header_rows_found)) ELSE 0]
    ELSE [ok |-> FALSE, header_end |-> 0, col_map |-> <<>>, header_start |-> 0]

\* _find_header_row_and_colmap(table, max_scan_rows)
FindHeaderRowAndColmap(table, max_scan_rows) ==
    HeaderResult(ScanRowsFrom(ScanStart, table, Min(max_scan_rows, Len(table)), 0))

\* max_scan_rows as _find_goods_table passes it.
MaxScanRows == 5

\* A variant that takes the first table whatever its scan found.
TakeFirstTable(tbls, t) ==
    [t |-> 1, header_end |-> 0,
     col_map |-> ScanRowsFrom(ScanStart, tbls[1], Min(MaxScanRows, Len(tbls[1])), 0).col_map]

RECURSIVE FindGoodsTableFrom(_, _)
\* _find_goods_table: the first table, from position t on, whose header is
\* found; t = 0 in the result stands for the ValueError.
FindGoodsTableFrom(tbls, t) ==
    IF t > Len(tbls) THEN [t |-> 0, header_end |-> 0, col_map |-> <<>>]
    ELSE LET h == FindHeaderRowAndColmap(tbls[t], MaxScanRows) IN
         IF h.ok THEN [t |-> t, header_end |-> h.header_end, col_map |-> h.col_map]
         ELSE FindGoodsTableFrom(tbls, t + 1)

\* A variant that returns the last table whose header is found.
FindLastGoodsTable(tbls) ==
    LET ok == {t \in 1..Len(tbls) : FindHeaderRowAndColmap(tbls[t], MaxScanRows).ok} IN
    IF ok = {} THEN [t |-> 0, header_end |-> 0, col_map |-> <<>>]
    ELSE LET h == FindHeaderRowAndColmap(tbls[SetMax(ok)], MaxScanRows) IN
         [t |-> SetMax(ok), header_end |-> h.header_end, col_map |-> h.col_map]

FindGoodsTable(tbls) == FindGoodsTableFrom(tbls, 1)

-----------------------------------------------------------------------------
(* Totals detection *)

\* The categories _classify_total_row returns.
TotalTypes == {"total", "vat", "total_without_vat"}

\* A variant that tests the generic total keywords first.
ClassifyGenericFirst(left_text) ==
    LET t == Normalized(left_text) IN
    IF t = "" THEN ""
    ELSE IF Contains(t, "itogo") \/ Contains(t, "vsego") THEN "total"
    ELSE IF Contains(t, "nds") \/ Contains(t, "v tom hisle nds") THEN "vat"
    ELSE IF Contains(t, "bez nds") \/ Contains(t, "itogo bez nds") THEN "total_without_vat"
    ELSE ""

\* _classify_total_row; "" stands for None.
ClassifyTotalRow(left_text) ==
    LET t == Normalized(left_text) IN
    IF t = "" THEN ""
    ELSE IF Contains(t, "bez nds") \/ Contains(t, "itogo bez nds") THEN "total_without_vat"
    ELSE IF Contains(t, "nds") \/ Contains(t, "v tom hisle nds") THEN "vat"
    ELSE IF Contains(t, "itogo") \/ Contains(t, "vsego") THEN "total"
    ELSE ""

RECURSIVE FindTotalRowsFrom(_, _, _)
\* The loop of _find_total_rows from row i on, found being the map so far.
FindTotalRowsFrom(table, i, found) ==
    IF i >= Len(table) THEN found
    ELSE IF Row(table, i).cells = <<>> THEN FindTotalRowsFrom(table, i + 1, found)
    ELSE LET row_type == ClassifyTotalRow(CellText(Cell(table, i, 0))) IN
         IF row_type # "" /\ row_type \notin DOMAIN found
         THEN FindTotalRowsFrom(table, i + 1, (row_type :> i) @@ found)
         ELSE FindTotalRowsFrom(table, i + 1, found)

\* _find_total_rows(table, start_row)
FindTotalRows(table, start_row) == FindTotalRowsFrom(table, start_row, <<>>)

\* The values of a dictionary.
Values(f) == {f[k] : k \in DOMAIN f}

-----------------------------------------------------------------------------
(* Row deletion / cloning *)

\* table._tbl.remove(table.rows[i]._tr)
RemoveAt(table, i) == SubSeq(table, 1, i) \o SubSeq(table, i + 2, Len(table))

RECURSIVE DeleteRowsAscending(_, _)
\* A variant that takes the indices in ascending order.
DeleteRowsAscending(table, indices) ==
    IF indices = {} THEN table
    ELSE LET i == SetMin(indices) IN
         DeleteRowsAscending(IF 0 <= i /\ i < Len(table) THEN RemoveAt(table, i) ELSE table,
                             indices \ {i})

RECURSIVE DeleteRows(_, _)
\* _delete_rows: the indices are taken in descending order, each removed if it
\* is inside the table at that moment.
DeleteRows(table, indices) ==
    IF indices = {} THEN table
    ELSE LET i == SetMax(indices) IN
         DeleteRows(IF 0 <= i /\ i < Len(table) THEN RemoveAt(table, i) ELSE table,
                    indices \ {i})

\* The 1-based position in the table of the row whose <w:tr> is tr.
PosOfTr(table, tr) == CHOOSE j \in 1..Len(table) : table[j].id = tr

\* deepcopy(src_tr): the copy is a new <w:tr> element with the same content.
CopyRow(table, src_row_idx, new_tr) ==
    [id |-> new_tr, cells |-> Row(table, src_row_idx).cells]

\* A variant that inserts the copy after the target row (addnext).
CloneAndInsertRowAfterTr(table, src_row_idx, target, new_tr) ==
    LET j == PosOfTr(table, target) IN
    SubSeq(table, 1, j) \o <<CopyRow(table, src_row_idx, new_tr)>>
        \o SubSeq(table, j + 1, Len(table))

\* _clone_and_insert_row_before_tr: target_tr.addprevious(new_tr)
CloneAndInsertRowBeforeTr(table, src_row_idx, target, new_tr) ==
    LET j == PosOfTr(table, target) IN
    SubSeq(table, 1, j - 1) \o <<CopyRow(table, src_row_idx, new_tr)>>
        \o SubSeq(table, j, Len(table))

\* A variant that puts the copy in front of the table's rows.
CloneAndPrependRow(table, src_row_idx, new_tr) ==
    <<CopyRow(table, src_row_idx, new_tr)>> \o table

\* _clone_and_append_row: table._tbl.append(new_tr)
CloneAndAppendRow(table, src_row_idx, new_tr) ==
    Append(table, CopyRow(table, src_row_idx, new_tr))

-----------------------------------------------------------------------------
(* Number formatting *)

Digits == "0123456789"

RECURSIVE NatToStr(_)
\* str(n) for a natural number n.
NatToStr(n) ==
    IF n < 10 THEN SubSeq(Digits, n + 1, n + 1)
    ELSE NatToStr(n \div 10) \o SubSeq(Digits, (n % 10) + 1, (n % 10) + 1)

RECURSIVE GroupThousands(_)
\* "{:,}".format(n).replace(",", " ")
GroupThousands(n) ==
    IF n < 1000 THEN NatToStr(n)
    ELSE LET r == n % 1000 IN
         GroupThousands(n \div 1000) \o " "
             \o (IF r < 10 THEN "00" ELSE IF r < 100 THEN "0" ELSE "") \o NatToStr(r)

Abs(v) == IF v < 0 THEN -v ELSE v

\* _fmt_money on an amount of v hundredths: '12 345,67'.
FmtMoney(v) ==
    LET a == Abs(v)
        frac == a % 100
    IN  (IF v < 0 THEN "-" ELSE "") \o GroupThousands(a \div 100) \o ","
            \o (IF frac < 10 THEN "0" ELSE "") \o NatToStr(frac)

\* _fmt_qty on a quantity of q hundredths: an integer without decimals, else
\* the normalized decimal with a comma.
FmtQty(q) ==
    IF q % 100 = 0 THEN NatToStr(q \div 100)
    ELSE IF q % 10 = 0 THEN NatToStr(q \div 100) \o "," \o NatToStr((q % 100) \div 10)
    ELSE NatToStr(q \div 100) \o ","
             \o (IF q % 100 < 10 THEN "0" ELSE "") \o NatToStr(q % 100)

\* A variant that rounds the quotient towards zero (ROUND_DOWN).
QuantizeDown(num, den) ==
    IF num >= 0 THEN num \div den ELSE -((-num) \div den)

\* Decimal.quantize(Decimal("0.01"), ROUND_HALF_UP) of the quotient num/den,
\* in hundredths (den > 0): ties go away from zero.
QuantizeHalfUp(num, den) ==
    IF num >= 0 THEN (2 * num + den) \div (2 * den)
    ELSE -((2 * (-num) + den) \div (2 * den))

RECURSIVE KeepNumeric(_)
\* s.replace(",", ".") followed by re.sub(r"[^\d.\-]", "", s); the spaces the
\* earlier replace calls remove are removed by the substitution as well.
KeepNumeric(s) ==
    IF s = "" THEN ""
    ELSE LET ch == SubSeq(s, 1, 1)
             rest == KeepNumeric(SubSeq(s, 2, Len(s)))
         IN  IF ch = "," THEN "." \o rest
             ELSE IF Contains("0123456789.-", ch) THEN ch \o rest
             ELSE rest

RECURSIVE StrToNat(_)
\* int(s) for a string of digits ("" gives 0).
StrToNat(s) ==
    IF s = "" THEN 0
    ELSE 10 * StrToNat(SubSeq(s, 1, Len(s) - 1))
             + (CHOOSE d \in 0..9 : SubSeq(Digits, d + 1, d + 1) = SubSeq(s, Len(s), Len(s)))

\* The position of the first "." of s, Len(s) + 1 when there is none.
DotPos(s) ==
    IF Contains(s, ".") THEN CHOOSE i \in 1..Len(s) :
                                 /\ SubSeq(s, i, i) = "."
                                 /\ ~Contains(SubSeq(s, 1, i - 1), ".")
    ELSE Len(s) + 1

\* _to_decimal_safe, in hundredths (digits past the second decimal dropped);
\* a text Decimal() rejects gives 0.
ToDecimalSafe(s) ==
    LET t == KeepNumeric(s)
        neg == t # "" /\ SubSeq(t, 1, 1) = "-"
        u == IF neg THEN SubSeq(t, 2, Len(t)) ELSE t
        int_part == SubSeq(u, 1, DotPos(u) - 1)
        frac_part == SubSeq(u, DotPos(u) + 1, Len(u))
        frac2 == SubSeq(frac_part \o "00", 1, 2)
    IN  IF \/ t \in {"", "-", "."}
           \/ Contains(u, "-")
           \/ Contains(frac_part, ".")
           \/ int_part \o frac_part = ""
        THEN 0
        ELSE (IF neg THEN -1 ELSE 1) * (100 * StrToNat(int_part) + StrToNat(frac2))

-----------------------------------------------------------------------------
(* Safe text set in paragraph / cell *)

\* The run add_run creates: no direct formatting.
NewRun(text) == [text |-> text, bold |-> FALSE]

\* A variant that replaces the paragraph's runs by one new run.
SetParagraphTextFresh(p, new_text) == <<NewRun(new_text)>>

\* _set_paragraph_text_preserve_runs
SetParagraphTextPreserveRuns(p, new_text) ==
    IF p = <<>> THEN <<NewRun(new_text)>>
    ELSE [i \in 1..Len(p) |-> [p[i] EXCEPT !.text = IF i = 1 THEN new_text ELSE ""]]

\* _set_cell_text_preserve
SetCellTextPreserve(cell, new_text) ==
    IF cell # <<>>
    THEN [i \in 1..Len(cell) |->
             SetParagraphTextPreserveRuns(cell[i], IF i = 1 THEN new_text ELSE "")]
    ELSE <<SetParagraphTextPreserveRuns(<<>>, new_text)>>

-----------------------------------------------------------------------------
(* Placeholder replacement *)

\* PLACEHOLDERS, in the dictionary's order: token and CompanyProfile attribute.
PLACEHOLDERS ==
    << <<"{{COMPANY_NAME}}", "name">>, <<"{{INN}}", "inn">>,
       <<"{{ADDRESS}}", "address">>, <<"{{PHONE}}", "phone">>, <<"{{CEO}}", "ceo">> >>

RECURSIVE StrReplace(_, _, _)
\* str.replace(old, new): every non-overlapping occurrence, left to right.
StrReplace(s, old, new) ==
    IF Len(s) < Len(old) THEN s
    ELSE IF SubSeq(s, 1, Len(old)) = old
         THEN new \o StrReplace(SubSeq(s, Len(old) + 1, Len(s)), old, new)
         ELSE SubSeq(s, 1, 1) \o StrReplace(SubSeq(s, 2, Len(s)), old, new)

RECURSIVE ReplaceAllPlaceholders(_, _, _)
\* for ph, attr in PLACEHOLDERS.items(): ..., from the i-th entry on.
ReplaceAllPlaceholders(full, comp, i) ==
    IF i > Len(PLACEHOLDERS) THEN full
    ELSE ReplaceAllPlaceholders(
             IF Contains(full, PLACEHOLDERS[i][1])
             THEN StrReplace(full, PLACEHOLDERS[i][1], comp[PLACEHOLDERS[i][2]])
             ELSE full,
             comp, i + 1)

\* A replacement that substitutes inside each run on its own.
ReplacePlaceholdersPerRun(p, comp) ==
    [i \in 1..Len(p) |-> [p[i] EXCEPT !.text = ReplaceAllPlaceholders(@, comp, 1)]]

\* _replace_placeholders_in_paragraph
ReplacePlaceholdersInParagraph(p, comp) ==
    IF p = <<>> THEN p
    ELSE LET full == ParagraphText(p) IN
         IF ~Contains(full, "{{") \/ ~Contains(full, "}}") THEN p
         ELSE SetParagraphTextPreserveRuns(p, ReplaceAllPlaceholders(full, comp, 1))

\* _replace_placeholders_in_doc, on the document's tables.
ReplacePlaceholdersInDoc(tbls, comp) ==
    [t \in 1..Len(tbls) |->
        [r \in 1..Len(tbls[t]) |->
            [tbls[t][r] EXCEPT !.cells =
                [c \in 1..Len(@) |->
                    [q \in 1..Len(@[c]) |-> ReplacePlaceholdersInParagraph(@[c][q], comp)]]]]]

-----------------------------------------------------------------------------
(* Fill row values *)

\* re.fullmatch(r"\d+", txt)
IsDigits(txt) ==
    /\ txt # ""
    /\ \A i \in 1..Len(txt) : Contains(Digits, SubSeq(txt, i, i))

\* row_cells[c] = ... through _set_cell_text_preserve, c 0-based.
SetCellAt(cells, c, text) == [cells EXCEPT ![c + 1] = SetCellTextPreserve(@, text)]

\* Whether some row_cells[...] of _fill_row_cells is out of range (IndexError).
FillRaises(cells, cm) ==
    \/ "name" \in DOMAIN cm /\ cm["name"] > 0 /\ cells = <<>>
    \/ \E key \in DOMAIN cm : cm[key] >= Len(cells)

\* The optional row-number step of _fill_row_cells.
FillNumber(cells, cm, item_no) ==
    IF "name" \in DOMAIN cm /\ cm["name"] > 0
    THEN LET first_cell_txt == Normalized(CellText(cells[1])) IN
         IF first_cell_txt = "" \/ IsDigits(first_cell_txt)
         THEN SetCellAt(cells, 0, NatToStr(item_no))
         ELSE cells
    ELSE cells

\* One  if key in col_map: _set_cell_text_preserve(...)  step.
FillKey(cells, cm, key, text) ==
    IF key \in DOMAIN cm THEN SetCellAt(cells, cm[key], text) ELSE cells

\* _fill_row_cells, when no index is out of range.
FillRowCells(cells, cm, item_no, it) ==
    LET c0 == FillNumber(cells, cm, item_no)
        c1 == FillKey(c0, cm, "name", it.name)
        c2 == FillKey(c1, cm, "qty", FmtQty(it.qty))
        c3 == FillKey(c2, cm, "unit", it.unit)
        c4 == FillKey(c3, cm, "price", FmtMoney(it.price))
    IN  FillKey(c4, cm, "amount", FmtMoney(it.amount))

-----------------------------------------------------------------------------
(* Totals update *)

None == -1

\* col_map.get("amount") or col_map.get("price"): a column 0 is falsy.
AmountCol(cm) ==
    IF "amount" \in DOMAIN cm /\ cm["amount"] # 0 THEN cm["amount"]
    ELSE IF "price" \in DOMAIN cm THEN cm["price"]
    ELSE None

RECURSIVE SumAmounts(_)
\* sum((it.amount for it in items), Decimal("0.00"))
SumAmounts(its) == IF its = <<>> THEN 0 ELSE Head(its).amount + SumAmounts(Tail(its))

\* vat = (total_sum * 20 / 120).quantize(0.01, ROUND_HALF_UP)
Vat(total_sum) == QuantizeHalfUp(total_sum * 20, 120)

\* total_wo_vat = (total_sum - vat).quantize(0.01, ROUND_HALF_UP)
TotalWoVat(total_sum) == QuantizeHalfUp(total_sum - Vat(total_sum), 1)

\* The value _update_totals passes to safe_set for a category.
TotalValue(typ, its) ==
    IF typ = "total" THEN SumAmounts(its)
    ELSE IF typ = "vat" THEN Vat(SumAmounts(its))
    ELSE TotalWoVat(SumAmounts(its))

\* Whether safe_set(row_idx, value) writes.
SafeSetWrites(table, amount_col, row_idx) ==
    /\ 0 <= row_idx /\ row_idx < Len(table)
    /\ amount_col < Len(Row(table, row_idx).cells)

\* A variant that moves a position outside the table to the nearest row.
SafeSetClamped(table, amount_col, row_idx, value) ==
    LET r == IF row_idx < 0 THEN 0
             ELSE IF row_idx >= Len(table) THEN Len(table) - 1
             ELSE row_idx
    IN  IF table # <<>> /\ amount_col < Len(Row(table, r).cells)
        THEN [table EXCEPT ![r + 1].cells = SetCellAt(@, amount_col, FmtMoney(value))]
        ELSE table

\* safe_set(row_idx, value)
SafeSet(table, amount_col, row_idx, value) ==
    IF SafeSetWrites(table, amount_col, row_idx)
    THEN [table EXCEPT ![row_idx + 1].cells = SetCellAt(@, amount_col, FmtMoney(value))]
    ELSE table

RECURSIVE UpdateTotalsOver(_, _, _, _, _, _)
\* for typ, old_idx in total_rows_idx.items(), over the categories left in
\* todo, in the order the dictionary was filled (ascending row index).
UpdateTotalsOver(table, amount_col, total_rows_idx, index_shift, its, todo) ==
    IF todo = {} THEN table
    ELSE LET typ == CHOOSE k \in todo : \A m \in todo : total_rows_idx[k] <= total_rows_idx[m]
             new_idx == total_rows_idx[typ] + index_shift
         IN  UpdateTotalsOver(SafeSet(table, amount_col, new_idx, TotalValue(typ, its)),
                              amount_col, total_rows_idx, index_shift, its, todo \ {typ})

\* _update_totals
UpdateTotals(table, cm, total_rows_idx, index_shift, its) ==
    IF AmountCol(cm) = None THEN table
    ELSE UpdateTotalsOver(table, AmountCol(cm), total_rows_idx, index_shift, its,
                          DOMAIN total_rows_idx)

\* History: the writes _update_totals performs on table, one record per
\* category whose safe_set call writes.
TotalsWrites(table, cm, total_rows_idx, index_shift, its) ==
    IF AmountCol(cm) = None THEN {}
    ELSE {[typ |-> typ,
           row_idx |-> total_rows_idx[typ] + index_shift,
           tr |-> Row(table, total_rows_idx[typ] + index_shift).id,
           col |-> AmountCol(cm),
           value |-> TotalValue(typ, its)] :
          typ \in {k \in DOMAIN total_rows_idx :
                      SafeSetWrites(table, AmountCol(cm), total_rows_idx[k] + index_shift)}}

-----------------------------------------------------------------------------
(* render_kp_docx, step by step *)

\* The goods table of the document, once found.
GoodsTable == tables[goods]

\* first_total_idx = min(total_rows.values()) if total_rows else None
FirstTotalIdx(tr) == IF DOMAIN tr # {} THEN SetMin(Values(tr)) ELSE None

\* The identity of the k-th <w:tr> element deepcopy creates: one no row of the
\* loaded table has.
NewTr(k) == Len(orig[goods]) + k

\* Step 2: _replace_placeholders_in_doc(doc, company)
ReplacePlaceholders ==
    /\ pc = "start"
    /\ tables' = ReplacePlaceholdersInDoc(tables, company)
    /\ pc' = "find_table"
    /\ UNCHANGED <<items, err, saved, goods, header_end_row, col_map, sample_row_idx,
                   total_rows, deleted_count, inserted_count, first_total_after_delete,
                   target_tr, company, scan, orig, writes, runs,
                   ws, xl, batch>>

\* Step 3: table, header_end_row, col_map = _find_goods_table(doc)
FindGoodsTableStep ==
    /\ pc = "find_table"
    /\ LET g == FindGoodsTable(tables) IN
       IF g.t = 0
       THEN /\ pc' = "error"
            /\ err' = "NoGoodsTable"
            /\ UNCHANGED <<goods, header_end_row, col_map>>
       ELSE /\ pc' = "sample"
            /\ goods' = g.t
            /\ header_end_row' = g.header_end
            /\ col_map' = g.col_map
            /\ err' = err
    /\ UNCHANGED <<tables, items, saved, sample_row_idx, total_rows, deleted_count,
                   inserted_count, first_total_after_delete, target_tr, company, scan,
                   orig, writes, runs,
                   ws, xl, batch>>

\* A variant that also rejects a sample row that is the table's last row.
SampleRowNotFollowed(table, sample) == sample + 1 >= Len(table)

\* if sample_row_idx >= len(table.rows)
SampleRowMissing(table, sample) == sample >= Len(table)

\* Step 4: the sample row is the row right after the header.
CheckSampleRow ==
    /\ pc = "sample"
    /\ sample_row_idx' = header_end_row + 1
    /\ IF SampleRowMissing(GoodsTable, header_end_row + 1)
       THEN pc' = "error" /\ err' = "MissingSampleRow"
       ELSE pc' = "totals" /\ err' = err
    /\ UNCHANGED <<tables, items, saved, goods, header_end_row, col_map, total_rows,
                   deleted_count, inserted_count, first_total_after_delete, target_tr,
                   company, scan, orig, writes, runs,
                   ws, xl, batch>>

\* Step 5: total_rows = _find_total_rows(table, start_row=sample_row_idx)
FindTotals ==
    /\ pc = "totals"
    /\ total_rows' = FindTotalRows(GoodsTable, sample_row_idx)
    /\ pc' = "delete"
    /\ UNCHANGED <<tables, items, err, saved, goods, header_end_row, col_map,
                   sample_row_idx, deleted_count, inserted_count,
                   first_total_after_delete, target_tr, company, scan, orig, writes,
                   runs,
                   ws, xl, batch>>

\* A variant whose range runs through the first totals row.
DeletedThroughTotal(table, sample, first_total_idx) ==
    IF first_total_idx # None
    THEN (sample + 1)..first_total_idx
    ELSE (sample + 1)..(Len(table) - 1)

\* deleted_indices of step 6.
DeletedIndices(table, sample, first_total_idx) ==
    IF first_total_idx # None
    THEN (sample + 1)..(first_total_idx - 1)
    ELSE (sample + 1)..(Len(table) - 1)

\* first_total_after_delete as computed before step 7, with the fallback
\* re-scan when the arithmetic leaves the table.
FirstTotalAfterDelete(table, sample, first_total_idx, deleted) ==
    LET a == first_total_idx - deleted IN
    IF a < 0 \/ a >= Len(table)
    THEN FirstTotalIdx(FindTotalRows(table, sample))
    ELSE a

\* Step 6 and the choice of the insertion target: delete the old goods rows
\* between the sample row and the first totals row (or to the end).
DeleteOldRows ==
    /\ pc = "delete"
    /\ LET first_total_idx == FirstTotalIdx(total_rows)
           deleted_indices == DeletedIndices(GoodsTable, sample_row_idx, first_total_idx)
           t1 == IF deleted_indices # {} THEN DeleteRows(GoodsTable, deleted_indices)
                 ELSE GoodsTable
           after == IF first_total_idx # None
                    THEN FirstTotalAfterDelete(t1, sample_row_idx, first_total_idx,
                                               Cardinality(deleted_indices))
                    ELSE None
       IN  /\ deleted_count' = Cardinality(deleted_indices)
           /\ tables' = [tables EXCEPT ![goods] = t1]
           /\ first_total_after_delete' = after
           /\ target_tr' = IF after # None THEN Row(t1, after).id ELSE 0
    /\ inserted_count' = 0
    /\ pc' = "insert"
    /\ UNCHANGED <<items, err, saved, goods, header_end_row, col_map, sample_row_idx,
                   total_rows, company, scan, orig, writes, runs,
                   ws, xl, batch>>

\* One iteration of the loop of step 7 (either branch): clone the row at
\* sample_row_idx, insert it before target_tr or append it, and fill the row
\* at inserted_row_idx.
InsertItem ==
    /\ pc = "insert"
    /\ inserted_count < Len(items)
    /\ LET idx == inserted_count + 1
           before == FirstTotalIdx(total_rows) # None /\ target_tr # 0
           t1 == IF before
                 THEN CloneAndInsertRowBeforeTr(GoodsTable, sample_row_idx, target_tr,
                                                NewTr(idx))
                 ELSE CloneAndAppendRow(GoodsTable, sample_row_idx, NewTr(idx))
           inserted_row_idx == IF before THEN first_total_after_delete - 1
                               ELSE Len(t1) - 1
           cells == Row(t1, inserted_row_idx).cells
       IN  IF FillRaises(cells, col_map)
           THEN /\ pc' = "error"
                /\ err' = "IndexError"
                /\ UNCHANGED <<tables, inserted_count>>
           ELSE /\ tables' = [tables EXCEPT ![goods] =
                       [t1 EXCEPT ![inserted_row_idx + 1].cells =
                           FillRowCells(cells, col_map, idx, items[idx])]]
                /\ inserted_count' = idx
                /\ UNCHANGED <<pc, err>>
    /\ UNCHANGED <<items, saved, goods, header_end_row, col_map, sample_row_idx,
                   total_rows, deleted_count, first_total_after_delete, target_tr,
                   company, scan, orig, writes, runs,
                   ws, xl, batch>>

\* Step 8: _delete_rows(table, [sample_row_idx])
DeleteSampleRow ==
    /\ pc = "insert"
    /\ inserted_count = Len(items)
    /\ tables' = [tables EXCEPT ![goods] = DeleteRows(@, {sample_row_idx})]
    /\ pc' = "update"
    /\ UNCHANGED <<items, err, saved, goods, header_end_row, col_map, sample_row_idx,
                   total_rows, deleted_count, inserted_count, first_total_after_delete,
                   target_tr, company, scan, orig, writes, runs,
                   ws, xl, batch>>

\* Step 9: _update_totals with index_shift = inserted_count - deleted_count - 1
UpdateTotalsStep ==
    /\ pc = "update"
    /\ LET index_shift == inserted_count - deleted_count - 1 IN
       IF DOMAIN total_rows # {}
       THEN /\ tables' = [tables EXCEPT ![goods] =
                   UpdateTotals(@, col_map, total_rows, index_shift, items)]
            /\ writes' = TotalsWrites(GoodsTable, col_map, total_rows, index_shift, items)
       ELSE UNCHANGED <<tables, writes>>
    /\ pc' = "save"
    /\ UNCHANGED <<items, err, saved, goods, header_end_row, col_map, sample_row_idx,
                   total_rows, deleted_count, inserted_count, first_total_after_delete,
                   target_tr, company, scan, orig, runs,
                   ws, xl, batch>>

\* doc.save(output_path)
Save ==
    /\ pc = "save"
    /\ saved' = TRUE
    /\ pc' = "done"
    /\ UNCHANGED <<tables, items, err, goods, header_end_row, col_map, sample_row_idx,
                   total_rows, deleted_count, inserted_count, first_total_after_delete,
                   target_tr, company, scan, orig, writes, runs,
                   ws, xl, batch>>

Next ==
    \/ ReplacePlaceholders
    \/ FindGoodsTableStep
    \/ CheckSampleRow
    \/ FindTotals
    \/ DeleteOldRows
    \/ InsertItem
    \/ DeleteSampleRow
    \/ UpdateTotalsStep
    \/ Save

-----------------------------------------------------------------------------
(* Inputs: templates and items *)

\* The most rows after a template's head and the longest item list.
MaxBody == 3
MaxItems == 2

\* The sequences of at most n elements of a set.
SeqsUpTo(S, n) == UNION {[1..len -> S] : len \in 0..n}

\* The table of a sequence of rows' cells; the i-th row's <w:tr> has identity i.
TableOf(rows) == [i \in 1..Len(rows) |-> [id |-> i, cells |-> rows[i]]]

\* The templates: a head followed by any body rows.
Templates == {TableOf(h \o b) : h \in Heads, b \in SeqsUpTo(BodyPool, MaxBody)}

\* The priced items, in hundredths: amounts 100.00, 250.50 and 10.00.
Catalogue ==
    <<[name |-> "Bolt", qty |-> 200, unit |-> "kg", price |-> 5000, amount |-> 10000],
      [name |-> "Klapan", qty |-> 250, unit |-> "m", price |-> 10020, amount |-> 25050],
      [name |-> "Vint", qty |-> 100, unit |-> "up", price |-> 1000, amount |-> 1000],
      [name |-> "Gajka", qty |-> 1200, unit |-> "kg", price |-> 100005, amount |-> 1200060]>>

\* The item lists: the non-empty prefixes of the catalogue (the extractors
\* raise on an empty list).
ItemLists == {SubSeq(Catalogue, 1, n) : n \in 1..Min(MaxItems, Len(Catalogue))}

TheCompany ==
    [id |-> "c1", name |-> "OOO Vektor", inn |-> "7701", address |-> "Moskva",
     phone |-> "123", ceo |-> "Ivanov"]

\* The state after doc = Document(template_path).
Loaded(doc, its, comp) ==
    /\ tables = doc
    /\ orig = doc
    /\ items = its
    /\ company = comp
    /\ pc = "start"
    /\ err = ""
    /\ saved = FALSE
    /\ goods = 0
    /\ header_end_row = 0
    /\ col_map = <<>>
    /\ sample_row_idx = 0
    /\ total_rows = <<>>
    /\ deleted_count = 0
    /\ inserted_count = 0
    /\ first_total_after_delete = None
    /\ target_tr = 0
    /\ scan = <<>>
    /\ writes = {}
    /\ runs = <<>>
    /\ ws = <<>>
    /\ xl = <<>>
    /\ batch = <<>>

Init ==
    \E T \in Templates, its \in ItemLists : Loaded(<<T>>, its, TheCompany)

Spec == Init /\ [][Next]_vars

-----------------------------------------------------------------------------
(* Claims checked under Spec *)

\* The goods table as loaded.
OrigTable == orig[goods]

\* Whether a row's first cell is classified as a totals row.
IsTotalsRow(row) == row.cells # <<>> /\ ClassifyTotalRow(CellText(row.cells[1])) # ""

\* The first totals row of the loaded table at or after the sample row, read
\* off the table itself; None when there is none.
OrigFirstTotal ==
    LET S == {i \in sample_row_idx..(Len(OrigTable) - 1) : IsTotalsRow(Row(OrigTable, i))}
    IN  IF S = {} THEN None ELSE SetMin(S)

\* The text a filled row shows for a role of an item.
ItemText(it, key) ==
    IF key = "name" THEN it.name
    ELSE IF key = "qty" THEN FmtQty(it.qty)
    ELSE IF key = "unit" THEN it.unit
    ELSE IF key = "price" THEN FmtMoney(it.price)
    ELSE FmtMoney(it.amount)

\* A row holds an item: every mapped role's column shows the item's value
\* (of a column mapped to several roles, the value of one of them).
HoldsItem(row, it) ==
    \A key \in DOMAIN col_map :
        \E k2 \in DOMAIN col_map :
            /\ col_map[k2] = col_map[key]
            /\ CellText(row.cells[col_map[key] + 1]) = ItemText(it, k2)

\* The texts of a row's cells.
RowTexts(row) == [j \in 1..Len(row.cells) |-> CellText(row.cells[j])]

\* The render has passed step 8 (the removal of the sample row).
Synthesized == pc \in {"update", "save", "done"}

\* The rows of the loaded table strictly between the sample row and the
\* first totals row (the stale example rows), counted on the table itself.
StaleCount ==
    Cardinality({i \in 0..(Len(OrigTable) - 1) : sample_row_idx < i /\ i < OrigFirstTotal})

\* The identities of a table's rows, in order.
RowIds(table) == [i \in 1..Len(table) |-> table[i].id]

\* C1 (as claimed, for the templates whose first totals row lies below the
\* sample row): after the render of N >= 1 items the N rows right before the
\* first totals row are the inserted clones, the k-th holds item k, no row
\* shows the sample row's example text, and no item is missing.
C1_ItemRowsBeforeTotals ==
    (pc = "done" /\ OrigFirstTotal # None /\ OrigFirstTotal > sample_row_idx) =>
        LET N == Len(items)
            p == PosOfTr(GoodsTable, Row(OrigTable, OrigFirstTotal).id)
        IN  /\ p > N
            /\ \A k \in 1..N :
                   /\ GoodsTable[p - N + k - 1].id > Len(OrigTable)
                   /\ HoldsItem(GoodsTable[p - N + k - 1], items[k])
            /\ \A i \in 1..Len(GoodsTable) :
                   RowTexts(GoodsTable[i]) # RowTexts(Row(OrigTable, sample_row_idx))

\* C2: for a template with a totals row and M stale rows between the sample
\* row and the first totals row, the goods table has original_count - M - 1 + N
\* rows once N items are synthesized.
C2_RowCount ==
    (Synthesized /\ OrigFirstTotal # None) =>
        Len(GoodsTable) = Len(OrigTable) - StaleCount - 1 + Len(items)

\* C2's case: a finished render of two items over a template with a totals
\* row and a stale row.
C2_Witness ==
    /\ pc = "done"
    /\ OrigFirstTotal # None
    /\ StaleCount >= 1
    /\ Len(items) = 2
    /\ Len(GoodsTable) = Len(OrigTable)

SampleChecked == goods # 0 /\ pc # "sample" /\ err # "MissingSampleRow"

\* C5: with no totals row the render appends one filled clone per item at the
\* end of the table in input order, writes no totals, leaves the header rows
\* alone and runs to completion.
C5_AppendWithoutTotals ==
    (SampleChecked /\ OrigFirstTotal = None) =>
        /\ writes = {}
        /\ pc # "error"
        /\ pc # "done" => ENABLED Next
        /\ Synthesized =>
               LET N == Len(items) IN
               /\ Len(GoodsTable) = sample_row_idx + N
               /\ \A k \in 1..N :
                      /\ GoodsTable[sample_row_idx + k].id = Len(OrigTable) + k
                      /\ HoldsItem(GoodsTable[sample_row_idx + k], items[k])
               /\ \A i \in 1..sample_row_idx : GoodsTable[i] = OrigTable[i]

\* C5's case: a finished render of two items over a template without a
\* totals row, with a stale row deleted.
C5_Witness ==
    /\ pc = "done"
    /\ saved
    /\ OrigFirstTotal = None
    /\ Len(items) = 2
    /\ deleted_count >= 1

\* Whether some cell in the first MaxScanRows rows of a table contains a
\* synonym of a role, read off the table itself.
RoleLabelled(table, key) ==
    \E r \in 1..Min(MaxScanRows, Len(table)) :
        \E c \in 1..Len(table[r].cells) :
            key \in RolesIn(Normalized(CellText(table[r].cells[c])))

\* A table labels name, quantity and at least one of price/amount.
HeaderLabelled(table) ==
    /\ RoleLabelled(table, "name")
    /\ RoleLabelled(table, "qty")
    /\ (RoleLabelled(table, "price") \/ RoleLabelled(table, "amount"))

\* C6: when no table of the document satisfies header discovery the render
\* ends in an error and nothing is saved; the document is saved only after
\* header discovery, the sample-row check and all row mutations succeeded.
C6_SaveOnlyAfterSuccess ==
    /\ (\A t \in 1..Len(orig) : ~HeaderLabelled(orig[t])) =>
           /\ ~saved
           /\ pc \in {"start", "find_table", "error"}
           /\ pc = "error" => err = "NoGoodsTable"
    /\ pc = "error" => ~saved
    /\ (saved \/ pc = "save") =>
           /\ err = ""
           /\ goods # 0
           /\ HeaderLabelled(OrigTable)
           /\ sample_row_idx = header_end_row + 1
           /\ sample_row_idx < Len(OrigTable)
           /\ inserted_count = Len(items)
           /\ Len(GoodsTable) = Len(OrigTable) - deleted_count + inserted_count - 1

\* C6's case: a document none of whose tables has a goods header has ended in
\* the error.
C6_Witness ==
    /\ pc = "error"
    /\ err = "NoGoodsTable"
    /\ \A t \in 1..Len(orig) : ~HeaderLabelled(orig[t])
    /\ \E t \in 1..Len(orig) : RoleLabelled(orig[t], "name") /\ RoleLabelled(orig[t], "qty")

\* C7: when the row header_end_row + 1 does not exist the render fails with
\* the missing-sample-row error, and no row has been deleted or inserted.
C7_MissingSampleRow ==
    /\ (goods # 0 /\ pc # "sample" /\ header_end_row + 1 >= Len(OrigTable)) =>
           pc = "error" /\ err = "MissingSampleRow"
    /\ err = "MissingSampleRow" =>
           /\ header_end_row + 1 >= Len(OrigTable)
           /\ RowIds(GoodsTable) = RowIds(OrigTable)
           /\ deleted_count = 0 /\ inserted_count = 0
           /\ ~saved

\* C7's case: a header found in a table with no row after it.
C7_Witness ==
    /\ err = "MissingSampleRow"
    /\ header_end_row + 1 = Len(OrigTable)

-----------------------------------------------------------------------------
(* Totals: renders of templates with all three totals rows *)

\* The longest list of amounts.
MaxAmounts == 2

\* Item amounts in hundredths: 0.01, 0.03, 0.04, 250.50 and 12 000.60.
AmountPool == {1, 3, 4, 25050, 1200060}

\* An item of one piece at the given amount.
PricedItem(a) == [name |-> "Bolt", qty |-> 100, unit |-> "kg", price |-> a, amount |-> a]

\* The item lists over the amounts.
AmountLists ==
    {[k \in 1..Len(as) |-> PricedItem(as[k])] :
        as \in UNION {[1..m -> AmountPool] : m \in 1..MaxAmounts}}

\* Templates with a grand total, a VAT and a total-without-VAT row.
TotalsTemplates ==
    {TableOf(<<HdrFull, SampleCells, TotalCells, VatCells, WoVatCells>>),
     TableOf(<<HdrFull, SampleCells, StaleCells, WoVatCells, VatCells, TotalCells>>)}

InitTotals ==
    \E T \in TotalsTemplates, its \in AmountLists : Loaded(<<T>>, its, TheCompany)

SpecTotals == InitTotals /\ [][Next]_vars

\* The sum of the amounts of the items.
RECURSIVE AmountsUpTo(_)
AmountsUpTo(n) == IF n = 0 THEN 0 ELSE AmountsUpTo(n - 1) + items[n].amount

\* The value _update_totals wrote for a category.
Written(typ) == (CHOOSE w \in writes : w.typ = typ).value

\* C4: the value written for the grand total is the sum of the amounts, the
\* value written for VAT is the grand total times 20/120 rounded half-up to
\* two decimals, the value written for the total without VAT is their
\* difference, and the totals cells read back as these values.
C4_TotalsCorrect ==
    writes # {} =>
        LET T == AmountsUpTo(Len(items)) IN
        /\ {w.typ : w \in writes} = TotalTypes
        /\ Written("total") = T
        /\ 120 * Written("vat") - 60 <= 20 * T
        /\ 20 * T < 120 * Written("vat") + 60
        /\ Written("total_without_vat") = T - Written("vat")
        /\ Written("vat") + Written("total_without_vat") = Written("total")
        /\ \A w \in writes :
               ToDecimalSafe(CellText(Cell(GoodsTable, w.row_idx, w.col))) = w.value

\* C4's case: totals written for a grand total whose VAT falls on a tie
\* (0.03 * 20 / 120 = 0.005) and is rounded up.
C4_Witness ==
    /\ pc = "done"
    /\ Cardinality(writes) = 3
    /\ AmountsUpTo(Len(items)) % 6 = 3
    /\ Written("vat") * 6 = AmountsUpTo(Len(items)) + 3

-----------------------------------------------------------------------------
(* Header discovery, cell by cell *)

\* The most title rows above a head and the most rows below it.
MaxLead == 5
MaxTail == 2

\* The rows below the head: an example row and a grand-total row.
TailPool == {SampleCells, TotalCells}

\* Tables whose head comes after up to MaxLead title rows.
HeaderTables ==
    {TableOf([i \in 1..k |-> TitleCells] \o h \o b) :
        k \in 0..MaxLead, h \in Heads, b \in SeqsUpTo(TailPool, MaxTail)}

\* The table _find_header_row_and_colmap scans.
ScannedTable == tables[1]

\* scan_rows = min(max_scan_rows, len(table.rows))
ScanRows == Min(MaxScanRows, Len(ScannedTable))

\* The state on entry to _find_header_row_and_colmap(table, 5); scan holds
\* the loop position (r, c_idx) and the locals col_map, header_rows_found.
InitHeader ==
    \E T \in HeaderTables :
        /\ tables = <<T>>
        /\ orig = <<T>>
        /\ items = SubSeq(Catalogue, 1, 1)
        /\ company = TheCompany
        /\ pc = "scan"
        /\ scan = [r |-> 0, c_idx |-> 0] @@ ScanStart
        /\ err = ""
        /\ saved = FALSE
        /\ goods = 0
        /\ header_end_row = 0
        /\ col_map = <<>>
        /\ sample_row_idx = 0
        /\ total_rows = <<>>
        /\ deleted_count = 0
        /\ inserted_count = 0
        /\ first_total_after_delete = None
        /\ target_tr = 0
        /\ writes = {}
        /\ runs = <<>>
        /\ ws = <<>>
        /\ xl = <<>>
        /\ batch = <<>>

\* One iteration of  for c_idx, cell in enumerate(row.cells).
ScanCellStep ==
    /\ pc = "scan"
    /\ scan.r < ScanRows
    /\ scan.c_idx < Len(Row(ScannedTable, scan.r).cells)
    /\ scan' = [r |-> scan.r, c_idx |-> scan.c_idx + 1]
                   @@ ScanCell(scan, scan.r, scan.c_idx, Cell(ScannedTable, scan.r, scan.c_idx))
    /\ UNCHANGED <<tables, items, pc, err, saved, goods, header_end_row, col_map,
                   sample_row_idx, total_rows, deleted_count, inserted_count,
                   first_total_after_delete, target_tr, company, orig, writes, runs,
                   ws, xl, batch>>

\* The end of a row's cells: on to the next r of  for r in range(scan_rows).
ScanNextRow ==
    /\ pc = "scan"
    /\ scan.r < ScanRows
    /\ scan.c_idx >= Len(Row(ScannedTable, scan.r).cells)
    /\ scan' = [scan EXCEPT !.r = @ + 1, !.c_idx = 0]
    /\ UNCHANGED <<tables, items, pc, err, saved, goods, header_end_row, col_map,
                   sample_row_idx, total_rows, deleted_count, inserted_count,
                   first_total_after_delete, target_tr, company, orig, writes, runs,
                   ws, xl, batch>>

\* After the loops: return header_end and col_map, or raise ValueError.
ScanFinish ==
    /\ pc = "scan"
    /\ scan.r >= ScanRows
    /\ LET h == HeaderResult(scan) IN
       /\ pc' = IF h.ok THEN "found" ELSE "failed"
       /\ col_map' = h.col_map
       /\ header_end_row' = h.header_end
       /\ goods' = IF h.ok THEN 1 ELSE 0
       /\ runs' = Append(runs, h)
    /\ UNCHANGED <<tables, items, err, saved, sample_row_idx, total_rows, deleted_count,
                   inserted_count, first_total_after_delete, target_tr, company, scan,
                   orig, writes,
                   ws, xl, batch>>

\* The most runs of header discovery on one table.
MaxRuns == 2

\* A further call of _find_header_row_and_colmap on the same table: fresh
\* locals, the table as the earlier run left it.
ScanAgain ==
    /\ pc \in {"found", "failed"}
    /\ Len(runs) < MaxRuns
    /\ pc' = "scan"
    /\ scan' = [r |-> 0, c_idx |-> 0] @@ ScanStart
    /\ UNCHANGED <<tables, items, err, saved, goods, header_end_row, col_map,
                   sample_row_idx, total_rows, deleted_count, inserted_count,
                   first_total_after_delete, target_tr, company, orig, writes, runs,
                   ws, xl, batch>>

NextHeader ==
    \/ ScanCellStep
    \/ ScanNextRow
    \/ ScanFinish
    \/ ScanAgain

SpecHeader == InitHeader /\ [][NextHeader]_vars

\* The scan has returned or raised.
ScanOver == pc \in {"found", "failed"}

\* C8: header discovery succeeds exactly when name, quantity and one of
\* price/amount are each matched by a cell of the first five rows; on success
\* the returned map has name, quantity and one of price/amount, and otherwise
\* it fails with the table-structure error.
C8_MinimalSetIff ==
    ScanOver =>
        /\ pc = "found" <=> HeaderLabelled(ScannedTable)
        /\ pc = "found" =>
               /\ {"name", "qty"} \subseteq DOMAIN col_map
               /\ {"price", "amount"} \cap DOMAIN col_map # {}
        /\ pc = "failed" <=> ~FindHeaderRowAndColmap(ScannedTable, MaxScanRows).ok

\* C8's case: a header that labels name, quantity and price but no amount is
\* found in a table of at least five rows.
C8_Witness ==
    /\ pc = "found"
    /\ "amount" \notin DOMAIN col_map
    /\ Len(ScannedTable) >= MaxScanRows

\* The cells visited so far, as (row, column) pairs, 0-based.
Visited ==
    {p \in (0..(ScanRows - 1)) \X (0..4) :
        /\ p[2] < Len(Row(ScannedTable, p[1]).cells)
        /\ p[1] < scan.r \/ (p[1] = scan.r /\ p[2] < scan.c_idx)}

\* The visited cells whose normalized text contains a synonym of a role.
MatchesOf(key) ==
    {p \in Visited : key \in RolesIn(Normalized(CellText(Cell(ScannedTable, p[1], p[2]))))}

\* The first of a set of cells in row-major order.
FirstCell(S) ==
    CHOOSE p \in S : \A q \in S : p[1] < q[1] \/ (p[1] = q[1] /\ p[2] <= q[2])

\* C9: at every point of the scan each role matched so far is bound to the
\* column of the first matching cell in row-major order (so no later cell or
\* row rebinds it), and that is the map returned.
C9_FirstMatchWins ==
    /\ \A key \in RoleSet :
           /\ key \in DOMAIN scan.col_map <=> MatchesOf(key) # {}
           /\ MatchesOf(key) # {} => scan.col_map[key] = FirstCell(MatchesOf(key))[2]
    /\ pc = "found" => col_map = scan.col_map

\* C9's case: a scan that met a bound role again in another column.
C9_Witness ==
    /\ pc = "found"
    /\ \E key \in RoleSet : Cardinality({p[2] : p \in MatchesOf(key)}) >= 2

\* The roles matched by the cells of rows 0..r.
LabelledUpTo(r) ==
    {key \in RoleSet : \E p \in MatchesOf(key) : p[1] <= r}

\* The first row by whose end the minimal role set is matched.
MinimalRow ==
    SetMin({r \in 0..(ScanRows - 1) : MinimalSet([k \in LabelledUpTo(r) |-> 0])})

\* C10 (as claimed): the scan stops once the minimal role set is satisfied:
\* no role is bound from a later row, and the returned header end row is not
\* below the row that completed the set.
C10_ScanStopsAtMinimalSet ==
    pc = "found" =>
        /\ \A i \in 1..Len(scan.header_rows_found) : scan.header_rows_found[i] <= MinimalRow
        /\ header_end_row <= MinimalRow

-----------------------------------------------------------------------------
(* Documents of several tables *)

\* The most tables of a document.
MaxTables == 3

\* A letterhead row: a token split over two runs, two tokens in one run and
\* a repeated token over three runs, a paragraph without tokens, an unknown
\* token split over two runs, and an unterminated token.
LetterheadCells ==
    << SplitCell("{{COMPANY", "_NAME}}", TRUE),
       << <<[text |-> "INN {{INN}}, tel. {{PHONE}}", bold |-> FALSE]>>,
          <<[text |-> "Dir. ", bold |-> FALSE], [text |-> "{{CEO}}", bold |-> TRUE],
            [text |-> " / {{CEO}}", bold |-> FALSE]>> >>,
       SplitCell("Adres", ":", FALSE),
       SplitCell("{{DA", "TE}}", FALSE),
       SplitCell("{{ADD", "RESS", TRUE) >>

\* The tables documents are made of: a letterhead, a table that labels
\* nothing, one that labels name and quantity only, and two goods tables.
DocTables ==
    {TableOf(<<LetterheadCells>>),
     TableOf(<<TitleCells, SampleCells>>),
     TableOf(<<HdrNoPrice, SampleCells>>),
     TableOf(<<HdrFull, SampleCells, TotalCells>>),
     TableOf(<<TitleCells, HdrNoAmount, SampleCells, StaleCells>>)}

InitDoc ==
    \E doc \in UNION {[1..n -> DocTables] : n \in 1..MaxTables} :
        Loaded(doc, SubSeq(Catalogue, 1, 1), TheCompany)

SpecDoc == InitDoc /\ [][Next]_vars

\* The tables of the document whose first rows label a goods header.
LabelledTables == {t \in 1..Len(tables) : HeaderLabelled(tables[t])}

\* C11: goods-table selection returns the first table for which header
\* discovery succeeds, with that table's header end row and column map; when
\* header discovery fails for every table it fails with the no-goods-table
\* error.
C11_FirstMatchingTable ==
    /\ pc = "sample" =>
           /\ LabelledTables # {}
           /\ goods = SetMin(LabelledTables)
           /\ header_end_row = FindHeaderRowAndColmap(tables[goods], MaxScanRows).header_end
           /\ col_map = FindHeaderRowAndColmap(tables[goods], MaxScanRows).col_map
    /\ err = "NoGoodsTable" <=> (pc = "error" /\ goods = 0 /\ LabelledTables = {})
    /\ (pc \notin {"start", "find_table"} /\ LabelledTables = {}) => err = "NoGoodsTable"

\* C11's case: the first table fails, the second and the third succeed, and
\* the second is returned.
C11_Witness ==
    /\ pc = "sample"
    /\ Len(tables) = 3
    /\ LabelledTables = {2, 3}
    /\ tables[2] # tables[3]
    /\ goods = 2

-----------------------------------------------------------------------------
(* Totals location *)

\* total_rows has been computed.
TotalsLocated == pc \in {"delete", "insert", "update", "save", "done"}

\* The category of a row by the keywords of its first cell's normalized
\* text, total-excluding-VAT before VAT before the generic total.
CategoryOf(row) ==
    LET t == Normalized(CellText(row.cells[1])) IN
    IF Contains(t, "bez nds") THEN "total_without_vat"
    ELSE IF Contains(t, "nds") THEN "vat"
    ELSE IF Contains(t, "itogo") \/ Contains(t, "vsego") THEN "total"
    ELSE ""

\* The rows of the loaded goods table, from the start row on, of a category.
RowsOfCategory(typ) ==
    {i \in sample_row_idx..(Len(OrigTable) - 1) : CategoryOf(Row(OrigTable, i)) = typ}

\* C12: totals location classifies every row from the start row to the end
\* of the table by its first cell, total-excluding-VAT before VAT before the
\* generic total, and records for each category the lowest row index of that
\* category only; a table with no such row yields the empty map.
C12_TotalsLocation ==
    TotalsLocated =>
        \A typ \in TotalTypes :
            IF RowsOfCategory(typ) = {} THEN typ \notin DOMAIN total_rows
            ELSE /\ typ \in DOMAIN total_rows
                 /\ total_rows[typ] = SetMin(RowsOfCategory(typ))

\* C12's case: two categories located, one of them in two rows, the row
\* labelled "Itogo bez NDS" recorded as total-excluding-VAT.
C12_Witness ==
    /\ TotalsLocated
    /\ Cardinality(DOMAIN total_rows) >= 2
    /\ Cardinality(RowsOfCategory("total_without_vat")) >= 2
    /\ Contains(Normalized(CellText(Cell(OrigTable, total_rows["total_without_vat"], 0))),
                "itogo")

-----------------------------------------------------------------------------
(* Header discovery, run twice *)

-----------------------------------------------------------------------------
(* Formatting preservation *)

\* The style attributes of the runs of a paragraph, in order.
RunStyles(p) == [i \in 1..Len(p) |-> p[i].bold]

\* A cell carries the run-level styles of another: paragraph by paragraph,
\* the runs the other cell has are there with the same style.
CarriesStyles(cell, of) ==
    /\ Len(cell) = Len(of)
    /\ \A q \in 1..Len(of) : of[q] # <<>> => RunStyles(cell[q]) = RunStyles(of[q])

\* The rows render_kp_docx inserted that are in the goods table.
InsertedRows == {i \in 1..Len(GoodsTable) : GoodsTable[i].id > Len(OrigTable)}

\* C14: every inserted row carries, in each cell, the run-level styles the
\* corresponding cell of the sample row had before synthesis, and no cell of
\* a row of the template has had the style of its first run changed.
C14_FormattingPreserved ==
    (SampleChecked /\ pc \notin {"totals", "delete"}) =>
        /\ \A i \in InsertedRows :
               LET sample == Row(OrigTable, sample_row_idx).cells IN
               /\ Len(GoodsTable[i].cells) = Len(sample)
               /\ \A c \in 1..Len(sample) : CarriesStyles(GoodsTable[i].cells[c], sample[c])
        /\ \A i \in 1..Len(GoodsTable) :
               GoodsTable[i].id <= Len(OrigTable) =>
                   LET before == OrigTable[GoodsTable[i].id].cells IN
                   \A c \in 1..Len(before) :
                       \A q \in 1..Len(before[c]) :
                           before[c][q] # <<>> =>
                               GoodsTable[i].cells[c][q][1].bold = before[c][q][1].bold

\* C14's case: an inserted row holds an item's name in a cell that kept the
\* sample cell's two runs, the first bold and the second not.
C14_Witness ==
    /\ pc = "done"
    /\ "name" \in DOMAIN col_map
    /\ \E i \in InsertedRows :
           LET cell == GoodsTable[i].cells[col_map["name"] + 1] IN
           /\ CellText(cell) = items[1].name
           /\ RunStyles(cell[1]) = <<TRUE, FALSE>>

-----------------------------------------------------------------------------
(* Spreadsheet backend (excel_template.py): cells and worksheet *)

\* Cell values: None, a str, and a float (float(Decimal), in hundredths: the
\* doubles nearest to distinct two-decimal amounts are distinct).
NoneVal == [none |-> TRUE]
Str(s) == [s |-> s]
Float(n) == [f |-> n]

\* isinstance(v, str)
IsStr(v) == DOMAIN v = {"s"}

\* A column that find_col did not find (None; falsy like it, and like it no
\* column ws.cell accepts).
NoCol == 0

\* ws.max_row: the greatest row of a cell of the sheet, 1 on an empty sheet.
MaxRowOf(sheet) == IF DOMAIN sheet = {} THEN 1 ELSE SetMax({q[1] : q \in DOMAIN sheet})

\* ws.max_column
MaxColOf(sheet) == IF DOMAIN sheet = {} THEN 1 ELSE SetMax({q[2] : q \in DOMAIN sheet})

\* ws.cell(r, c).value; reading creates the cell with value None, which
\* changes neither a value nor, for the rows and columns the code reads
\* (inside max_row and max_column), the sheet's extent.
ValueAt(sheet, r, c) == IF <<r, c>> \in DOMAIN sheet THEN sheet[<<r, c>>] ELSE NoneVal

\* ws.cell(r, c).value = v
SetValue(sheet, r, c, v) == (<<r, c>> :> v) @@ sheet

RECURSIVE LStrip(_)
LStrip(s) == IF s # "" /\ IsSpace(SubSeq(s, 1, 1)) THEN LStrip(SubSeq(s, 2, Len(s))) ELSE s

RECURSIVE RStrip(_)
RStrip(s) ==
    IF s # "" /\ IsSpace(SubSeq(s, Len(s), Len(s))) THEN RStrip(SubSeq(s, 1, Len(s) - 1)) ELSE s

\* str.strip()
Strip(s) == LStrip(RStrip(s))

RECURSIVE LowerStr(_)
\* str.lower()
LowerStr(s) == IF s = "" THEN "" ELSE LowerChar(SubSeq(s, 1, 1)) \o LowerStr(SubSeq(s, 2, Len(s)))

\* ch.isalnum() or ch in [" ", "_"], for a lower-case character.
KeptByNorm(ch) == Contains("abcdefghijklmnopqrstuvwxyz0123456789 _", ch)

RECURSIVE FilterNorm(_)
FilterNorm(s) ==
    IF s = "" THEN ""
    ELSE (IF KeptByNorm(SubSeq(s, 1, 1)) THEN SubSeq(s, 1, 1) ELSE "")
             \o FilterNorm(SubSeq(s, 2, Len(s)))

\* _norm
Norm(s) == StrReplace(FilterNorm(Strip(LowerStr(s))), "  ", " ")

\* _norm(str(v)) if v is not None else "": the text of a float is digits
\* (and a point, which _norm drops).
NormedValue(v) ==
    IF IsStr(v) THEN Norm(v.s)
    ELSE IF v = NoneVal THEN ""
    ELSE NatToStr(v.f \div 100) \o NatToStr((v.f % 100) \div 10)

\* req of _find_table, in the dictionary's order.
XlRoles == <<"name", "qty", "unit", "price", "amount">>

XlReq ==
    [name   |-> <<"naimenovanie">>,
     qty    |-> <<"kolihestvo", "kol-vo", "kolvo">>,
     unit   |-> <<"ed", "ed.", "edizm", "ed.izm", "ed izmerenij">>,
     price  |-> <<"cena">>,
     amount |-> <<"summa", "itogo">>]

\* The scan limits of _find_table and the window of _update_totals.
XlMaxScanRows == 120
XlMaxScanCols == 60
XlTotalsWindow == 60

\* normed of _find_table for row r.
NormedRow(sheet, r) ==
    [c \in 1..Min(MaxColOf(sheet), XlMaxScanCols) |-> NormedValue(ValueAt(sheet, r, c))]

\* find_col(keys): the first cell that is not empty and contains a key.
FindCol(normed, keys) ==
    LET hits == {idx \in 1..Len(normed) :
                    normed[idx] # "" /\ \E k \in 1..Len(keys) : Contains(normed[idx], keys[k])}
    IN  IF hits = {} THEN NoCol ELSE SetMin(hits)

\* The column map _find_table builds for row r.
XlColMapOfRow(sheet, r) ==
    LET normed == NormedRow(sheet, r) IN
    [key \in {XlRoles[i] : i \in 1..Len(XlRoles)} |-> FindCol(normed, XlReq[key])]

\* all([name_c, qty_c, unit_c, price_c])
XlHeaderAccepted(cm) ==
    cm["name"] # NoCol /\ cm["qty"] # NoCol /\ cm["unit"] # NoCol /\ cm["price"] # NoCol

\* _find_table; ok = FALSE stands for the ValueError.
XlFindTable(sheet) ==
    LET rows == {r \in 1..Min(MaxRowOf(sheet), XlMaxScanRows) :
                    XlHeaderAccepted(XlColMapOfRow(sheet, r))}
    IN  IF rows = {} THEN [ok |-> FALSE, header_row |-> 0, col_map |-> <<>>]
        ELSE [ok |-> TRUE, header_row |-> SetMin(rows),
              col_map |-> XlColMapOfRow(sheet, SetMin(rows))]

-----------------------------------------------------------------------------
(* Spreadsheet backend: writing items, totals, placeholders *)

\* v is None or str(v).strip() == ""
IsBlank(v) == v = NoneVal \/ (IsStr(v) /\ Strip(v.s) = "")

RECURSIVE ClearKeysFrom(_, _, _, _)
\* for key, col in col_map.items(): ws.cell(r, col).value = None, from the
\* i-th key on; ws.cell raises on a column that is None.
ClearKeysFrom(sheet, r, cm, i) ==
    IF i > Len(XlRoles) THEN [ws |-> sheet, raised |-> FALSE]
    ELSE IF cm[XlRoles[i]] = NoCol THEN [ws |-> sheet, raised |-> TRUE]
    ELSE ClearKeysFrom(SetValue(sheet, r, cm[XlRoles[i]], NoneVal), r, cm, i + 1)

RECURSIVE ClearRowsFrom(_, _, _)
\* The first loop of _write_items, from row r on.
ClearRowsFrom(sheet, r, cm) ==
    IF r > MaxRowOf(sheet) \/ IsBlank(ValueAt(sheet, r, cm["name"]))
    THEN [ws |-> sheet, raised |-> FALSE]
    ELSE LET cleared == ClearKeysFrom(sheet, r, cm, 1) IN
         IF cleared.raised THEN cleared ELSE ClearRowsFrom(cleared.ws, r + 1, cm)

\* The body of the second loop of _write_items for one item at row rr.
WriteItemAt(sheet, rr, cm, it) ==
    LET s1 == SetValue(sheet, rr, cm["name"], Str(it.name))
        s2 == SetValue(s1, rr, cm["qty"], Float(it.qty))
        s3 == SetValue(s2, rr, cm["unit"], Str(it.unit))
        s4 == SetValue(s3, rr, cm["price"], Float(it.price))
    IN  IF cm["amount"] # NoCol THEN SetValue(s4, rr, cm["amount"], Float(it.amount)) ELSE s4

RECURSIVE WriteItemsFrom(_, _, _, _, _)
\* for i, it in enumerate(items), from the i-th item (0-based) on.
WriteItemsFrom(sheet, start_row, cm, its, i) ==
    IF i >= Len(its) THEN sheet
    ELSE WriteItemsFrom(WriteItemAt(sheet, start_row + i, cm, its[i + 1]), start_row, cm,
                        its, i + 1)

\* _write_items: the sheet, the row returned, and whether it raised.
XlWriteItems(sheet, header_row, cm, its) ==
    LET cleared == ClearRowsFrom(sheet, header_row + 1, cm) IN
    IF cleared.raised THEN [ws |-> cleared.ws, after_row |-> 0, raised |-> TRUE]
    ELSE [ws |-> WriteItemsFrom(cleared.ws, header_row + 1, cm, its, 0),
          after_row |-> header_row + 1 + Len(its), raised |-> FALSE]

\* The labels _update_totals accepts, after strip().lower().
XlTotalLabels == {"itogo", "vsego", "itogo:", "vsego:"}

\* _update_totals
XlUpdateTotals(sheet, after_items_row, cm, its) ==
    LET amount_col == IF cm["amount"] # NoCol THEN cm["amount"] ELSE cm["price"]
        window == after_items_row..(Min(MaxRowOf(sheet), after_items_row + XlTotalsWindow) - 1)
        hits == {r \in window :
                    LET left == ValueAt(sheet, r, cm["name"]) IN
                    IsStr(left) /\ LowerStr(Strip(left.s)) \in XlTotalLabels}
    IN  IF hits = {} THEN sheet
        ELSE SetValue(sheet, SetMin(hits), amount_col, Float(SumAmounts(its)))

\* _replace_placeholders
XlReplacePlaceholders(sheet, comp) ==
    [q \in DOMAIN sheet |->
        IF IsStr(sheet[q]) /\ Contains(sheet[q].s, "{{") /\ Contains(sheet[q].s, "}}")
        THEN Str(ReplaceAllPlaceholders(sheet[q].s, comp, 1))
        ELSE sheet[q]]

\* header_row and col_map of create_default_template.
DefaultHeaderRow == 10
DefaultColMap == [name |-> 1, qty |-> 2, unit |-> 3, price |-> 4, amount |-> 5]

\* The sheet of create_default_template before _write_items.
DefaultSheet ==
    (<<1, 1>> :> Str("Kommerheskoe predloqenie"))
    @@ (<<3, 1>> :> Str("Kompanij: {{COMPANY_NAME}}"))
    @@ (<<4, 1>> :> Str("INN: {{INN}}"))
    @@ (<<5, 1>> :> Str("Adres: {{ADDRESS}}"))
    @@ (<<6, 1>> :> Str("Telefon: {{PHONE}}"))
    @@ (<<7, 1>> :> Str("Rukovoditelw: {{CEO}}"))
    @@ (<<DefaultHeaderRow, 1>> :> Str("Naimenovanie"))
    @@ (<<DefaultHeaderRow, 2>> :> Str("Kolihestvo"))
    @@ (<<DefaultHeaderRow, 3>> :> Str("Ed. izmerenij"))
    @@ (<<DefaultHeaderRow, 4>> :> Str("Cena"))
    @@ (<<DefaultHeaderRow, 5>> :> Str("Summa"))

\* A default layout whose totals row is put right below the header row.
CreateDefaultTotalsFirst(its, comp) ==
    LET written == XlWriteItems(DefaultSheet, DefaultHeaderRow, DefaultColMap, its)
        s1 == SetValue(written.ws, DefaultHeaderRow + 1, 1, Str("Itogo"))
        s2 == SetValue(s1, DefaultHeaderRow + 1, 5, Float(SumAmounts(its)))
    IN  XlReplacePlaceholders(s2, comp)

\* create_default_template
CreateDefaultTemplate(its, comp) ==
    LET written == XlWriteItems(DefaultSheet, DefaultHeaderRow, DefaultColMap, its)
        s1 == SetValue(written.ws, written.after_row + 1, 1, Str("Itogo"))
        s2 == SetValue(s1, written.after_row + 1, 5, Float(SumAmounts(its)))
    IN  XlReplacePlaceholders(s2, comp)

-----------------------------------------------------------------------------
(* Spreadsheet backend: render_kp, step by step *)

\* The variables render_kp does not touch.
docxVars ==
    <<tables, goods, header_end_row, col_map, sample_row_idx, total_rows, deleted_count,
      inserted_count, first_total_after_delete, target_tr, scan, orig, writes, runs, batch>>

\* _replace_placeholders(ws, company)
XlReplaceStep ==
    /\ pc = "xl_start"
    /\ ws' = XlReplacePlaceholders(ws, company)
    /\ pc' = "xl_find"
    /\ UNCHANGED <<docxVars, items, company, err, saved, xl>>

\* header_row, col_map = _find_table(ws)
XlFindTableStep ==
    /\ pc = "xl_find"
    /\ LET f == XlFindTable(ws) IN
       IF f.ok
       THEN /\ xl' = [xl EXCEPT !.header_row = f.header_row, !.col_map = f.col_map]
            /\ pc' = "xl_write"
            /\ err' = err
       ELSE /\ pc' = "error"
            /\ err' = "NoExcelTable"
            /\ xl' = xl
    /\ UNCHANGED <<docxVars, items, company, saved, ws>>

\* after_row = _write_items(ws, header_row, col_map, items)
XlWriteItemsStep ==
    /\ pc = "xl_write"
    /\ LET w == XlWriteItems(ws, xl.header_row, xl.col_map, items) IN
       /\ ws' = w.ws
       /\ xl' = [xl EXCEPT !.after_row = w.after_row, !.before_write = ws]
       /\ IF w.raised
          THEN pc' = "error" /\ err' = "TypeError"
          ELSE pc' = "xl_totals" /\ err' = err
    /\ UNCHANGED <<docxVars, items, company, saved>>

\* _update_totals(ws, after_row, col_map, items)
XlUpdateTotalsStep ==
    /\ pc = "xl_totals"
    /\ ws' = XlUpdateTotals(ws, xl.after_row, xl.col_map, items)
    /\ pc' = "xl_save"
    /\ UNCHANGED <<docxVars, items, company, err, saved, xl>>

\* wb = create_default_template(items, company)
XlCreateDefaultStep ==
    /\ pc = "xl_default"
    /\ ws' = CreateDefaultTemplate(items, company)
    /\ pc' = "xl_save"
    /\ UNCHANGED <<docxVars, items, company, err, saved, xl>>

\* wb.save(output_path)
XlSaveStep ==
    /\ pc = "xl_save"
    /\ saved' = TRUE
    /\ pc' = "done"
    /\ UNCHANGED <<docxVars, items, company, err, ws, xl>>

NextXl ==
    \/ XlReplaceStep
    \/ XlFindTableStep
    \/ XlWriteItemsStep
    \/ XlUpdateTotalsStep
    \/ XlCreateDefaultStep
    \/ XlSaveStep

\* The most example rows of a template and the most blank rows below them.
MaxExamples == 2
MaxGap == 2

\* Rows of spreadsheet templates: a title with a token, headers with and
\* without an amount column and one without a quantity column, an example
\* row, a totals row and a footer.
XlTitle == <<Str("Kompanij: {{COMPANY_NAME}}")>>
XlHdrFull ==
    <<Str("Naimenovanie"), Str("Kolihestvo"), Str("Ed. izmerenij"), Str("Cena"), Str("Summa")>>
XlHdrNoAmount == SubSeq(XlHdrFull, 1, 4)
XlHdrNoQty == <<Str("Naimenovanie"), Str("Ed."), Str("Cena"), Str("Summa")>>
XlExample == <<Str("Primer pozicii"), Float(100), Str("kg"), Float(10000), Float(10000)>>
XlTotal == <<Str("Itogo"), NoneVal, NoneVal, NoneVal, Float(0)>>
XlFooter == <<Str("Podpisw: {{CEO}}")>>

\* The sheet of a sequence of rows; a cell of value None is not stored.
SheetOf(rows) ==
    LET cells == {q \in UNION {{<<r, c>> : c \in 1..Len(rows[r])} : r \in 1..Len(rows)} :
                     rows[q[1]][q[2]] # NoneVal}
    IN  [q \in cells |-> rows[q[1]][q[2]]]

\* The rows below the example rows and the gap: nothing, a totals row that
\* is the sheet's last row, a totals row followed by a footer.
XlTails == {<<>>, <<XlTotal>>, <<XlTotal, XlFooter>>}

XlTemplates ==
    {SheetOf(<<XlTitle, h>> \o [i \in 1..e |-> XlExample] \o [i \in 1..g |-> <<>>] \o t) :
        h \in {XlHdrFull, XlHdrNoAmount, XlHdrNoQty},
        e \in 0..MaxExamples, g \in 0..MaxGap, t \in XlTails}

\* The state on entry to render_kp: with a template (the workbook loaded) or
\* without one (template_path is None).
InitXl ==
    /\ \/ ws \in XlTemplates /\ pc = "xl_start"
       \/ ws = <<>> /\ pc = "xl_default"
    /\ xl = [header_row |-> 0, col_map |-> <<>>, after_row |-> 0, loaded |-> ws,
             before_write |-> <<>>]
    /\ items \in ItemLists
    /\ company = TheCompany
    /\ err = ""
    /\ saved = FALSE
    /\ tables = <<>>
    /\ orig = <<>>
    /\ goods = 0
    /\ header_end_row = 0
    /\ col_map = <<>>
    /\ sample_row_idx = 0
    /\ total_rows = <<>>
    /\ deleted_count = 0
    /\ inserted_count = 0
    /\ first_total_after_delete = None
    /\ target_tr = 0
    /\ scan = <<>>
    /\ writes = {}
    /\ runs = <<>>
    /\ batch = <<>>

SpecXl == InitXl /\ [][NextXl]_vars

-----------------------------------------------------------------------------
(* Spreadsheet backend: the effect of _write_items *)

\* _write_items has just run: it returned or it raised.
XlWriteOver == pc = "xl_totals" \/ err = "TypeError"

\* The columns of the column map that hold a column.
MappedCols == {xl.col_map[k] : k \in DOMAIN xl.col_map} \ {NoCol}

\* The first row at or below `r` whose name cell is blank in `sheet`, or the
\* row after the last one.
RECURSIVE FirstBlankFrom(_, _)
FirstBlankFrom(sheet, r) ==
    IF r > MaxRowOf(sheet) \/ IsBlank(ValueAt(sheet, r, xl.col_map.name))
    THEN r
    ELSE FirstBlankFrom(sheet, r + 1)

\* The rows _write_items is to clear and the rows it is to write.
ClearedRows == (xl.header_row + 1)..(FirstBlankFrom(xl.before_write, xl.header_row + 1) - 1)
ItemRows == (xl.header_row + 1)..(xl.header_row + Len(items))

\* What item k puts into a mapped column c.
ItemValue(k, c) ==
    IF c = xl.col_map.name THEN Str(items[k].name)
    ELSE IF c = xl.col_map.qty THEN Float(items[k].qty)
    ELSE IF c = xl.col_map.unit THEN Str(items[k].unit)
    ELSE IF c = xl.col_map.price THEN Float(items[k].price)
    ELSE Float(items[k].amount)

\* The larger of two numbers.
Max(a, b) == IF a >= b THEN a ELSE b

\* The cells of the sheet before and after, over a common grid.
XlGrid == (1..(Max(MaxRowOf(ws), MaxRowOf(xl.before_write)) + 1)) \X (1..5)

\* C15: _write_items clears the mapped cells only in the contiguous rows from
\* header_row + 1 down to the first row whose name cell is blank, then writes
\* item k into row header_row + k and returns header_row + 1 + N; every cell
\* outside the two ranges or in an unmapped column is left unchanged.
C15_WriteItemsFrame ==
    XlWriteOver =>
        /\ err # "TypeError"
        /\ xl.after_row = xl.header_row + 1 + Len(items)
        /\ \A q \in XlGrid :
              LET r == q[1]
                  c == q[2]
              IN  IF c \in MappedCols /\ r \in ItemRows
                  THEN ValueAt(ws, r, c) = ItemValue(r - xl.header_row, c)
                  ELSE IF c \in MappedCols /\ r \in ClearedRows
                  THEN ValueAt(ws, r, c) = NoneVal
                  ELSE ValueAt(ws, r, c) = ValueAt(xl.before_write, r, c)

\* The same property on the templates whose header has an amount column.
FrameWhenAmountMapped ==
    (XlWriteOver /\ xl.col_map.amount # NoCol) => C15_WriteItemsFrame

-----------------------------------------------------------------------------
(* Spreadsheet backend: the totals row after render_kp *)

\* The cell of row r in the name column holds exactly a totals keyword.
IsXlTotalsRow(sheet, r) ==
    LET left == ValueAt(sheet, r, xl.col_map.name) IN
    IsStr(left) /\ LowerStr(Strip(left.s)) \in XlTotalLabels

\* render_kp ran with a template and saved the workbook.
XlRendered == pc = "done" /\ xl.loaded # <<>>

\* The template has a totals row below the header row.
TemplateHasTotals ==
    \E r \in (xl.header_row + 1)..MaxRowOf(xl.loaded) : IsXlTotalsRow(xl.loaded, r)

\* The column _update_totals writes the sum into.
XlAmountCol ==
    IF xl.col_map.amount # NoCol THEN xl.col_map.amount ELSE xl.col_map.price

\* C16: for a template with a totals row below the item rows, after render_kp
\* the totals row is still present below the N written item rows and its
\* amount cell holds the sum of the item amounts, also when the totals row is
\* the last row of the sheet or directly follows the example rows.
C16_TotalsRowUpdated ==
    (XlRendered /\ TemplateHasTotals) =>
        \E r \in (xl.header_row + Len(items) + 1)..MaxRowOf(ws) :
            /\ IsXlTotalsRow(ws, r)
            /\ ValueAt(ws, r, XlAmountCol) = Float(SumAmounts(items))

\* The same property on the templates that keep a blank row between the
\* example rows and the totals row and a footer row below the totals row.
TotalsUpdatedWhenFramed ==
    (/\ XlRendered
     /\ \E r \in (xl.header_row + Len(items) + 2)..(MaxRowOf(xl.loaded) - 1) :
           /\ IsXlTotalsRow(xl.loaded, r)
           /\ IsBlank(ValueAt(xl.loaded, r - 1, xl.col_map.name)))
        => C16_TotalsRowUpdated

-----------------------------------------------------------------------------
(* Spreadsheet backend: the default layout *)

\* render_kp ran without a template and built the default workbook.
XlDefaultBuilt == pc \in {"xl_save", "done"} /\ xl.loaded = <<>>

\* The header labels of the default layout, by column.
DefaultHeaders ==
    <<Str("Naimenovanie"), Str("Kolihestvo"), Str("Ed. izmerenij"), Str("Cena"), Str("Summa")>>

\* The cells of item `it` in columns 1..5.
DefaultItemCells(it) ==
    <<Str(it.name), Float(it.qty), Str(it.unit), Float(it.price), Float(it.amount)>>

\* C17: without a template path render_kp builds the default layout with no
\* header discovery: the headers in row 10, columns 1..5, item k in row
\* 10 + k, and a totals row labelled "Itogo" strictly below the last item row
\* whose column 5 holds the sum of the item amounts; no item row is
\* overwritten by the totals row.
C17_DefaultLayout ==
    XlDefaultBuilt =>
        /\ xl.header_row = 0 /\ xl.col_map = <<>>
        /\ \A c \in 1..5 : ValueAt(ws, 10, c) = DefaultHeaders[c]
        /\ \A k \in 1..Len(items) : \A c \in 1..5 :
              ValueAt(ws, 10 + k, c) = DefaultItemCells(items[k])[c]
        /\ \E r \in (10 + Len(items) + 1)..MaxRowOf(ws) :
              /\ ValueAt(ws, r, 1) = Str("Itogo")
              /\ ValueAt(ws, r, 5) = Float(SumAmounts(items))
        /\ \A r \in 11..MaxRowOf(ws) :
              ValueAt(ws, r, 1) = Str("Itogo") => r > 10 + Len(items)

\* The default workbook of the longest item list has been saved.
C17_Witness ==
    /\ pc = "done"
    /\ saved
    /\ xl.loaded = <<>>
    /\ Len(items) = Min(MaxItems, Len(Catalogue))
    /\ ValueAt(ws, 12 + Len(items), 5) = Float(SumAmounts(items))

-----------------------------------------------------------------------------
(* The batch of variants (gui.py, _generate_worker) *)

\* The variant slots of the window and the fewest enabled variants
\* _collect_variant_settings accepts.
VariantSlots == 3
MinVariants == 2

\* The most companies of the store.
MaxCompanies == 2
CompanyPool == <<"c1", "c2", "c3", "c4">>
CompanyIds == {CompanyPool[k] : k \in 1..Min(MaxCompanies, Len(CompanyPool))}

\* out_path of variant i: the company's name, the index and the suffix of
\* the backend (the time stamp is the same for the whole batch).
OutPath(b, i) ==
    [company |-> b.variants[i], v |-> i, suffix |-> IF b.docx THEN ".docx" ELSE ".xlsx"]

\* The batch after iteration i of the loop ran to its end: the renderer saved
\* the file and the loop goes on.
AfterSuccess(b, i) ==
    [b EXCEPT !.rendered = Append(@, i),
              !.written = @ \cup {OutPath(b, i)},
              !.at = "b_loop"]

\* A worker that catches the exception inside the loop and goes on with the
\* next variant.
ContinueAfterFailure(b, i) ==
    [b EXCEPT !.rendered = Append(@, i),
              !.failed_at = IF @ = 0 THEN i ELSE @,
              !.at = "b_loop"]

\* The batch after iteration i raised: control leaves the loop for the
\* except clause; nothing was saved for variant i.
AfterFailure(b, i) ==
    [b EXCEPT !.rendered = Append(@, i),
              !.failed_at = i,
              !.at = "b_except"]

batchFrame ==
    <<tables, goods, header_end_row, col_map, sample_row_idx, total_rows, deleted_count,
      inserted_count, first_total_after_delete, target_tr, scan, orig, writes, runs,
      items, company, saved, ws, xl>>

\* enabled_variants = self._collect_variant_settings() and the extraction
\* of the items: either may raise before the loop starts.
BatchPrepare ==
    /\ pc = "b_prepare"
    /\ \E raised \in BOOLEAN :
          /\ batch' = [batch EXCEPT !.at = IF raised THEN "b_except" ELSE "b_loop"]
          /\ err' = IF raised THEN "ValueError" ELSE err
    /\ pc' = batch'.at
    /\ UNCHANGED batchFrame

\* One iteration of `for i, st in enumerate(enabled_variants, start=1)`:
\* store.get, apply_pricing and the renderer, which saves as its last step.
RenderVariant ==
    /\ pc = "b_loop"
    /\ Len(batch.rendered) < Len(batch.variants)
    /\ LET i == Len(batch.rendered) + 1 IN
       \E outcome \in {"ok", "ValueError", "Exception"} :
          /\ batch' = IF outcome = "ok" THEN AfterSuccess(batch, i) ELSE AfterFailure(batch, i)
          /\ err' = IF outcome = "ok" THEN err ELSE outcome
    /\ pc' = batch'.at
    /\ UNCHANGED batchFrame

\* The loop is exhausted: self._log("Gotovo").
BatchDone ==
    /\ pc = "b_loop"
    /\ Len(batch.rendered) = Len(batch.variants)
    /\ batch' = [batch EXCEPT !.at = "b_finally"]
    /\ pc' = batch'.at
    /\ UNCHANGED <<batchFrame, err>>

\* except ValueError / except Exception: the error is logged and shown.
BatchExcept ==
    /\ pc = "b_except"
    /\ batch' = [batch EXCEPT !.shown = err, !.at = "b_finally"]
    /\ pc' = batch'.at
    /\ UNCHANGED <<batchFrame, err>>

\* finally: self.root.after(0, self._ui_finish)
UiFinish ==
    /\ pc = "b_finally"
    /\ batch' = [batch EXCEPT !.busy = FALSE, !.at = "b_idle"]
    /\ pc' = batch'.at
    /\ UNCHANGED <<batchFrame, err>>

NextBatch ==
    \/ BatchPrepare
    \/ RenderVariant
    \/ BatchDone
    \/ BatchExcept
    \/ UiFinish

\* The state when on_generate has started the worker thread: the button is
\* disabled and at least MinVariants of the slots are enabled.
InitBatch ==
    /\ \E n \in MinVariants..VariantSlots : \E vs \in [1..n -> CompanyIds] : \E d \in BOOLEAN :
          batch = [variants |-> vs, docx |-> d, rendered |-> <<>>, written |-> {},
                   failed_at |-> 0, shown |-> "", busy |-> TRUE, at |-> "b_prepare"]
    /\ pc = "b_prepare"
    /\ err = ""
    /\ saved = FALSE
    /\ items = <<>>
    /\ company = TheCompany
    /\ ws = <<>>
    /\ xl = <<>>
    /\ tables = <<>>
    /\ orig = <<>>
    /\ goods = 0
    /\ header_end_row = 0
    /\ col_map = <<>>
    /\ sample_row_idx = 0
    /\ total_rows = <<>>
    /\ deleted_count = 0
    /\ inserted_count = 0
    /\ first_total_after_delete = None
    /\ target_tr = 0
    /\ scan = <<>>
    /\ writes = {}
    /\ runs = <<>>

SpecBatch == InitBatch /\ [][NextBatch]_vars

\* The worker has left the try statement.
BatchOver == batch.at \in {"b_finally", "b_idle"}

\* C18: the variants are rendered one after another in order; if rendering
\* variant i ends in an error, no variant j > i is rendered or written and the
\* files written for variants 1..i-1 stay in place; if no variant fails, the
\* output file of every enabled variant is written.
C18_BatchFailFast ==
    /\ batch.rendered = [k \in 1..Len(batch.rendered) |-> k]
    /\ batch.failed_at > 0 =>
          /\ \A k \in 1..Len(batch.rendered) : batch.rendered[k] <= batch.failed_at
          /\ \A f \in batch.written : f.v <= batch.failed_at
          /\ \A j \in 1..(batch.failed_at - 1) : OutPath(batch, j) \in batch.written
    /\ (BatchOver /\ err = "") =>
          batch.written = {OutPath(batch, j) : j \in 1..Len(batch.variants)}

\* Variant 2 of three failed after variant 1 was written, and the worker has
\* finished.
C18_Witness ==
    /\ batch.at = "b_idle"
    /\ Len(batch.variants) = VariantSlots
    /\ batch.failed_at = MinVariants
    /\ batch.written = {OutPath(batch, 1)}
    /\ batch.shown # ""

-----------------------------------------------------------------------------
(* Placeholder substitution in paragraphs *)

\* The known tokens.
Tokens == {PLACEHOLDERS[i][1] : i \in 1..Len(PLACEHOLDERS)}

\* The company's value for a token.
TokenValue(tok) ==
    LET i == CHOOSE j \in 1..Len(PLACEHOLDERS) : PLACEHOLDERS[j][1] = tok
    IN  company[PLACEHOLDERS[i][2]]

\* The text read from left to right with every token that starts at the
\* current position replaced by its value.
RECURSIVE Substituted(_)
Substituted(s) ==
    IF s = "" THEN ""
    ELSE LET here == {tok \in Tokens : Len(tok) <= Len(s) /\ SubSeq(s, 1, Len(tok)) = tok} IN
         IF here # {}
         THEN LET tok == CHOOSE t \in here : TRUE
              IN  TokenValue(tok) \o Substituted(SubSeq(s, Len(tok) + 1, Len(s)))
         ELSE SubSeq(s, 1, 1) \o Substituted(SubSeq(s, 2, Len(s)))

\* The paragraphs of the loaded document, by table, row, cell and paragraph.
ParagraphPlaces ==
    UNION {UNION {UNION {{<<t, r, c, k>> : k \in 1..Len(orig[t][r].cells[c])} :
                         c \in 1..Len(orig[t][r].cells)} :
                  r \in 1..Len(orig[t])} :
           t \in 1..Len(orig)}

ParagraphAt(doc, q) == doc[q[1]][q[2]].cells[q[3]][q[4]]

\* A paragraph whose concatenated runs hold a known token.
HoldsToken(p) == \E tok \in Tokens : Contains(ParagraphText(p), tok)

\* _replace_placeholders_in_doc has just run.
PlaceholdersReplaced == pc = "find_table"

\* C19: placeholder substitution in a paragraph that contains placeholder
\* tokens replaces every known token in the concatenation of the paragraph's
\* runs, writes the whole result into the first run and leaves every other
\* run of the paragraph with empty text; the paragraph's visible text is the
\* substituted concatenation.
C19_PlaceholderSubstitution ==
    PlaceholdersReplaced =>
        \A q \in ParagraphPlaces :
            LET before == ParagraphAt(orig, q)
                after == ParagraphAt(tables, q)
            IN  HoldsToken(before) =>
                    /\ Len(after) = Len(before)
                    /\ after[1].text = Substituted(ParagraphText(before))
                    /\ \A i \in 2..Len(after) : after[i].text = ""
                    /\ ParagraphText(after) = Substituted(ParagraphText(before))
                    /\ ~HoldsToken(after)

\* A token that is split over two runs, and a paragraph of three runs with
\* the same token twice, have been substituted.
C19_Witness ==
    /\ PlaceholdersReplaced
    /\ \E q \in ParagraphPlaces :
          /\ Len(ParagraphAt(orig, q)) = 2
          /\ HoldsToken(ParagraphAt(orig, q))
          /\ \A i \in 1..2 : ~HoldsToken(<<ParagraphAt(orig, q)[i]>>)
          /\ ParagraphAt(tables, q)[1].text = company.name
    /\ \E q \in ParagraphPlaces :
          /\ Len(ParagraphAt(orig, q)) = 3
          /\ ParagraphText(ParagraphAt(tables, q)) = "Dir. Ivanov / Ivanov"

-----------------------------------------------------------------------------
(* Where rows are deleted and inserted *)

\* Step 6 has run: the rows deleted and the clones inserted so far can be
\* read off the table.
RowsEdited == goods # 0 /\ pc \in {"insert", "update", "save", "done"}

\* The identities of the table's rows, as a set.
IdSet(table) == {table[i].id : i \in 1..Len(table)}

\* The 0-based index a row of the loaded table had, by its identity.
OrigIndex(tr) == PosOfTr(OrigTable, tr) - 1

\* The 0-based index of a row of the current table, by its identity.
IndexNow(tr) == PosOfTr(GoodsTable, tr) - 1

\* The identity of the loaded table's sample row.
SampleTr == Row(OrigTable, sample_row_idx).id

\* The first totals row found by step 5, as an index of the loaded table.
FoundFirstTotal == FirstTotalIdx(total_rows)

\* C20: every row deletion and every row insertion of render_kp_docx happens
\* at an index strictly greater than the sample row's index and, when totals
\* exist, strictly before the first totals row; so the row removed by the
\* final sample-removal step is the original sample row, never a header row,
\* an inserted item row or a totals row. This holds for every template that
\* passes the sample-row check, also when the sample row's first cell matches
\* a totals keyword.
C20_EditsBelowSampleRow ==
    RowsEdited =>
        /\ \A tr \in IdSet(OrigTable) \ (IdSet(GoodsTable) \cup {SampleTr}) :
              /\ OrigIndex(tr) > sample_row_idx
              /\ FoundFirstTotal # None => OrigIndex(tr) < FoundFirstTotal
        /\ pc = "insert" =>
              \A tr \in IdSet(GoodsTable) \ IdSet(OrigTable) :
                  /\ IndexNow(tr) > sample_row_idx
                  /\ FoundFirstTotal # None =>
                         IndexNow(tr) < IndexNow(Row(OrigTable, FoundFirstTotal).id)
        /\ Synthesized =>
              /\ SampleTr \notin IdSet(GoodsTable)
              /\ \A k \in 1..Len(items) : NewTr(k) \in IdSet(GoodsTable)
              /\ \A i \in 0..(sample_row_idx - 1) : Row(OrigTable, i).id \in IdSet(GoodsTable)
              /\ \A typ \in DOMAIN total_rows :
                    total_rows[typ] # sample_row_idx =>
                        Row(OrigTable, total_rows[typ]).id \in IdSet(GoodsTable)

\* The same property on the templates whose sample row is not a totals row.
EditsBelowOrdinarySampleRow ==
    (RowsEdited /\ FoundFirstTotal # sample_row_idx) => C20_EditsBelowSampleRow

-----------------------------------------------------------------------------
(* The deletion of the old goods rows *)

\* Step 6 has just run and no clone has been inserted yet.
OldRowsDeleted == goods # 0 /\ pc = "insert" /\ inserted_count = 0

\* The goods table as it was when step 6 started.
TableBeforeDelete == ReplacePlaceholdersInDoc(orig, company)[goods]

\* The 0-based indices strictly between the sample row and the first totals
\* row, or after the sample row when there is no totals row.
BetweenSampleAndTotals ==
    {i \in 0..(Len(OrigTable) - 1) :
        /\ i > sample_row_idx
        /\ OrigFirstTotal # None => i < OrigFirstTotal}

\* The rows of a table outside a set of 0-based indices, in order.
RECURSIVE RowsOutside(_, _, _)
RowsOutside(table, S, i) ==
    IF i >= Len(table) THEN <<>>
    ELSE (IF i \in S THEN <<>> ELSE <<Row(table, i)>>) \o RowsOutside(table, S, i + 1)

\* C21: the deletion step removes exactly the rows with index strictly
\* between the sample row and the first totals row (with no totals, every row
\* after the sample row) and nothing else: header rows, the sample row, the
\* totals rows and the rows after the first totals row keep content and order;
\* afterwards the first totals row sits at first_total_before - deleted, which
\* lies inside the table, so the re-scan is never needed.
C21_DeletesOnlyStaleRows ==
    OldRowsDeleted =>
        /\ GoodsTable = RowsOutside(TableBeforeDelete, BetweenSampleAndTotals, 0)
        /\ deleted_count = Cardinality(BetweenSampleAndTotals)
        /\ OrigFirstTotal = None => first_total_after_delete = None
        /\ OrigFirstTotal # None =>
              /\ first_total_after_delete = OrigFirstTotal - deleted_count
              /\ 0 <= OrigFirstTotal - deleted_count
              /\ OrigFirstTotal - deleted_count < Len(GoodsTable)
              /\ Row(GoodsTable, first_total_after_delete).id
                     = Row(TableBeforeDelete, OrigFirstTotal).id
              /\ target_tr = Row(TableBeforeDelete, OrigFirstTotal).id

\* A stale row was deleted above a totals row, which moved up to the row
\* right after the sample row.
C21_Witness ==
    /\ OldRowsDeleted
    /\ deleted_count >= 1
    /\ OrigFirstTotal # None
    /\ first_total_after_delete = sample_row_idx + 1
    /\ first_total_after_delete < OrigFirstTotal
    /\ Len(GoodsTable) = Len(OrigTable) - deleted_count

-----------------------------------------------------------------------------
(* The column of the totals values *)

\* _update_totals has run over a table with totals rows.
TotalsUpdated == goods # 0 /\ pc \in {"save", "done"} /\ DOMAIN total_rows # {}

\* The column the totals values belong in: the amount role's column when the
\* role is mapped, whatever its position, else the price role's column.
ClaimedTotalsCol ==
    IF "amount" \in DOMAIN col_map THEN col_map["amount"]
    ELSE IF "price" \in DOMAIN col_map THEN col_map["price"]
    ELSE None

\* C22: the totals values are written into the column mapped to the amount
\* role whenever the column map has an amount role, for every column position
\* of that role (column 0 included), and into the price column only when no
\* amount role was mapped.
C22_TotalsIntoAmountColumn ==
    TotalsUpdated =>
        /\ \A w \in writes : w.col = ClaimedTotalsCol
        /\ \A typ \in DOMAIN total_rows :
              LET q == total_rows[typ] + inserted_count - deleted_count - 1 IN
              (/\ 0 <= q /\ q < Len(GoodsTable)
               /\ ClaimedTotalsCol # None
               /\ ClaimedTotalsCol < Len(Row(GoodsTable, q).cells))
                  => \E w \in writes : w.typ = typ /\ w.col = ClaimedTotalsCol

\* The same property on the column maps whose amount role is not in column 0.
TotalsIntoNonZeroAmountColumn ==
    (TotalsUpdated /\ ("amount" \in DOMAIN col_map => col_map["amount"] # 0))
        => C22_TotalsIntoAmountColumn

-----------------------------------------------------------------------------
(* The fill of an item row (_fill_row_cells) *)

\* Header rows with the name column in column 0, 1 and 2.
FillHdrNameFirst == CellsOf(<<"Naimenovanie tovara", "Kol-vo", "Cena, rub", "Summa, rub">>, TRUE)
FillHdrNameThird ==
    CellsOf(<<"Artikul", "#", "Naimenovanie tovara", "Kol-vo", "Cena, rub", "Primehanie">>, TRUE)

\* The texts the cells left of the name column hold in an example row.
NumberTexts == {"", "1", " 12 ", "A-7"}

\* The example rows of the three headers.
FillTables ==
    {TableOf(<<FillHdrNameFirst, CellsOf(<<"Primer", "1", "100,00", "100,00">>, FALSE)>>)}
    \cup {TableOf(<<HdrFull, CellsOf(<<x, "Primer", "1", "100,00", "100,00">>, FALSE)>>) :
             x \in NumberTexts}
    \cup {TableOf(<<FillHdrNameThird,
                    CellsOf(<<x, y, "Primer", "1", "100,00", z>>, FALSE)>>) :
             x \in NumberTexts, y \in NumberTexts, z \in {"", "7"}}

\* Header discovery and the choice of the sample row, for a table of one
\* header row and one example row.
FillFindHeader ==
    /\ pc = "fill_find"
    /\ LET h == FindHeaderRowAndColmap(tables[1], MaxScanRows) IN
       IF h.ok /\ ~SampleRowMissing(tables[1], h.header_end + 1)
       THEN /\ goods' = 1
            /\ col_map' = h.col_map
            /\ header_end_row' = h.header_end
            /\ sample_row_idx' = h.header_end + 1
            /\ pc' = "fill_rows"
            /\ err' = err
       ELSE /\ pc' = "error"
            /\ err' = "NoGoodsTable"
            /\ UNCHANGED <<goods, col_map, header_end_row, sample_row_idx>>
    /\ UNCHANGED <<tables, items, saved, total_rows, deleted_count, inserted_count,
                   first_total_after_delete, target_tr, company, scan, orig, writes, runs,
                   ws, xl, batch>>

\* One iteration of the loop that appends rows: clone the sample row, append
\* the clone and fill it with the next item.
FillItem ==
    /\ pc = "fill_rows"
    /\ inserted_count < Len(items)
    /\ LET idx == inserted_count + 1
           t1 == CloneAndAppendRow(tables[1], sample_row_idx, Len(orig[1]) + idx)
           cells == Row(t1, Len(t1) - 1).cells
       IN  IF FillRaises(cells, col_map)
           THEN /\ pc' = "error"
                /\ err' = "IndexError"
                /\ UNCHANGED <<tables, inserted_count>>
           ELSE /\ tables' = <<[t1 EXCEPT ![Len(t1)].cells =
                                   FillRowCells(cells, col_map, idx, items[idx])]>>
                /\ inserted_count' = idx
                /\ UNCHANGED <<pc, err>>
    /\ UNCHANGED <<items, saved, goods, header_end_row, col_map, sample_row_idx, total_rows,
                   deleted_count, first_total_after_delete, target_tr, company, scan, orig,
                   writes, runs, ws, xl, batch>>

NextFill ==
    \/ FillFindHeader
    \/ FillItem

InitFill ==
    /\ \E T \in FillTables : tables = <<T>> /\ orig = <<T>>
    /\ items \in ItemLists
    /\ company = TheCompany
    /\ pc = "fill_find"
    /\ err = ""
    /\ saved = FALSE
    /\ goods = 0
    /\ header_end_row = 0
    /\ col_map = <<>>
    /\ sample_row_idx = 0
    /\ total_rows = <<>>
    /\ deleted_count = 0
    /\ inserted_count = 0
    /\ first_total_after_delete = None
    /\ target_tr = 0
    /\ scan = <<>>
    /\ writes = {}
    /\ runs = <<>>
    /\ ws = <<>>
    /\ xl = <<>>
    /\ batch = <<>>

SpecFill == InitFill /\ [][NextFill]_vars

\* Some item row has been filled.
RowsFilled == pc = "fill_rows" /\ inserted_count >= 1

\* The cells of the example row and of the k-th filled row.
ExampleCells == Row(orig[1], sample_row_idx).cells
FilledCells(k) == Row(tables[1], sample_row_idx + k).cells

\* The 0-based columns the column map binds.
RoleCols == {col_map[key] : key \in DOMAIN col_map}

\* The column immediately left of the name column takes the item number: it
\* exists and its cell holds empty text or only digits.
NumberColTaken ==
    /\ col_map["name"] > 0
    /\ LET txt == NormalizeText(CellText(ExampleCells[col_map["name"]])) IN
       txt = "" \/ IsDigits(txt)

\* C23: the item number k is written into the column immediately left of the
\* name column if and only if that column exists and its cell holds empty text
\* or only digits; no other cell outside the mapped role columns is modified
\* by the fill.
C23_NumberLeftOfName ==
    RowsFilled =>
        \A k \in 1..inserted_count :
            LET left == col_map["name"] - 1 IN
            /\ NumberColTaken => CellText(FilledCells(k)[left + 1]) = NatToStr(k)
            /\ \A c \in 0..(Len(ExampleCells) - 1) :
                  (c \notin RoleCols /\ ~(c = left /\ NumberColTaken))
                      => FilledCells(k)[c + 1] = ExampleCells[c + 1]

\* The same property on the tables whose name column is column 0 or 1.
NumberLeftOfNameWhenFirst ==
    (RowsFilled /\ col_map["name"] <= 1) => C23_NumberLeftOfName

-----------------------------------------------------------------------------
(* Totals that cannot be written (_update_totals, safe_set) *)

\* The largest number of inserted and of deleted rows the index shift is
\* drawn from.
MaxShift == 2

\* Totals rows of two cells: a label and a value, with no cell at the amount
\* column.
TotalShort == CellsOf(<<"Itogo:", "115,00">>, TRUE)
VatShort == CellsOf(<<"V tom hisle~NDS 20%", "19,17">>, FALSE)

\* Tables as _update_totals receives them: the header, the sample row (about
\* to be shifted out) and three totals rows, some of them short.
SkipTables ==
    {TableOf(<<HdrFull, StaleCells, t1, t2, WoVatCells>>) :
        t1 \in {TotalCells, TotalShort}, t2 \in {VatCells, VatShort}}

\* The column maps of a header with and without an amount column.
SkipColMaps ==
    {[name |-> 1, qty |-> 2, price |-> 3, amount |-> 4], [name |-> 1, qty |-> 2, price |-> 3]}

\* total_rows_idx: the categories found, each at a row of its own.
SkipTotalRows ==
    {<<>>} \cup
    {f \in UNION {[D -> 2..5] : D \in (SUBSET TotalTypes) \ {{}}} :
        \A a, b \in DOMAIN f : a # b => f[a] # f[b]}

\* The arguments of a call of _update_totals, drawn freely: the index shift
\* is inserted_count - deleted_count - 1.
InitSkip ==
    /\ \E T \in SkipTables : tables = <<T>> /\ orig = <<T>>
    /\ goods = 1
    /\ col_map \in SkipColMaps
    /\ total_rows \in SkipTotalRows
    /\ inserted_count \in 0..MaxShift
    /\ deleted_count \in 0..MaxShift
    /\ items \in ItemLists
    /\ company = TheCompany
    /\ pc = "update"
    /\ err = ""
    /\ saved = FALSE
    /\ header_end_row = 0
    /\ sample_row_idx = 1
    /\ first_total_after_delete = None
    /\ target_tr = 0
    /\ scan = <<>>
    /\ writes = {}
    /\ runs = <<>>
    /\ ws = <<>>
    /\ xl = <<>>
    /\ batch = <<>>

NextSkip ==
    \/ UpdateTotalsStep
    \/ Save

SpecSkip == InitSkip /\ [][NextSkip]_vars

\* _update_totals has returned.
SkipUpdated == pc \in {"save", "done"}

\* The shifted position of a category.
ShiftedIdx(typ) == total_rows[typ] + inserted_count - deleted_count - 1

\* The table _update_totals was called with.
TableBeforeTotals == orig[1]

\* The category's position is outside the table, or its row has no cell at
\* the amount column.
OutsideTable(typ) == ShiftedIdx(typ) < 0 \/ ShiftedIdx(typ) >= Len(TableBeforeTotals)
NoAmountCell(typ) ==
    /\ ~OutsideTable(typ)
    /\ AmountCol(col_map) >= Len(Row(TableBeforeTotals, ShiftedIdx(typ)).cells)
SkippedCategory(typ) == OutsideTable(typ) \/ NoAmountCell(typ)

\* The categories whose value is due.
DueCategories == {typ \in DOMAIN total_rows : ~SkippedCategory(typ)}

\* C24: when a totals category's shifted position falls outside the table, or
\* its row has no cell at the amount column, the write for that category is
\* skipped without an error, the writes for the other categories still
\* happen, no other row is modified, and the render completes and saves.
C24_UnwritableTotalsSkipped ==
    /\ pc # "error" /\ err = ""
    /\ pc = "done" => saved
    /\ SkipUpdated =>
          /\ Len(GoodsTable) = Len(TableBeforeTotals)
          /\ \A typ \in DueCategories :
                ToDecimalSafe(CellText(Cell(GoodsTable, ShiftedIdx(typ), AmountCol(col_map))))
                    = TotalValue(typ, items)
          /\ \A i \in 0..(Len(GoodsTable) - 1) :
                /\ Row(GoodsTable, i).id = Row(TableBeforeTotals, i).id
                /\ Len(Row(GoodsTable, i).cells) = Len(Row(TableBeforeTotals, i).cells)
                /\ \A c \in 0..(Len(Row(GoodsTable, i).cells) - 1) :
                      (\A typ \in DueCategories :
                           ~(ShiftedIdx(typ) = i /\ AmountCol(col_map) = c))
                          => Cell(GoodsTable, i, c) = Cell(TableBeforeTotals, i, c)

\* A saved render in which one category was skipped for its position, one for
\* its short row, and the third was written.
C24_Witness ==
    /\ pc = "done"
    /\ saved
    /\ \E a, b, c \in DOMAIN total_rows :
          /\ OutsideTable(a)
          /\ NoAmountCell(b)
          /\ c \in DueCategories
          /\ Cell(GoodsTable, ShiftedIdx(c), AmountCol(col_map))
                 # Cell(TableBeforeTotals, ShiftedIdx(c), AmountCol(col_map))

-----------------------------------------------------------------------------
(* Header discovery of the two backends on the same labels *)

\* The labels a header row is made of, by role; "" stands for a header
\* without that column.
LabelChoices ==
    [name   |-> {"Naimenovanie"},
     qty    |-> {"Kolihestvo", "Kol-vo", ""},
     unit   |-> {"Ed. izmerenij", ""},
     price  |-> {"Cena", ""},
     amount |-> {"Summa", ""}]

\* A sequence without its empty strings.
RECURSIVE NonEmpty(_)
NonEmpty(ts) ==
    IF ts = <<>> THEN <<>>
    ELSE (IF Head(ts) = "" THEN <<>> ELSE <<Head(ts)>>) \o NonEmpty(Tail(ts))

\* The header rows: an optional number column and the chosen labels in the
\* order name, quantity, unit, price, amount.
HeaderLabels ==
    {NonEmpty(<<lead, n, q, u, p, a>>) :
        lead \in {"#", ""}, n \in LabelChoices.name, q \in LabelChoices.qty,
        u \in LabelChoices.unit, p \in LabelChoices.price, a \in LabelChoices.amount}

\* The same header, followed by an example row, as a table of a document and
\* as a sheet of a workbook.
LabelsTable(ls) == TableOf(<<CellsOf(ls, TRUE), CellsOf([i \in 1..Len(ls) |-> "1"], FALSE)>>)
LabelsSheet(ls) == SheetOf(<<[i \in 1..Len(ls) |-> Str(ls[i])], [i \in 1..Len(ls) |-> Str("1")]>>)

\* _find_header_row_and_colmap on the table.
BothDocx ==
    /\ pc \in {"both_start", "both_xl_done"}
    /\ LET h == FindHeaderRowAndColmap(tables[1], MaxScanRows) IN
       /\ goods' = IF h.ok THEN 1 ELSE 0
       /\ col_map' = h.col_map
       /\ header_end_row' = h.header_end
    /\ pc' = IF pc = "both_start" THEN "both_docx_done" ELSE "both_done"
    /\ UNCHANGED <<tables, items, err, saved, sample_row_idx, total_rows, deleted_count,
                   inserted_count, first_total_after_delete, target_tr, company, scan, orig,
                   writes, runs, ws, xl, batch>>

\* _find_table on the sheet.
BothXl ==
    /\ pc \in {"both_start", "both_docx_done"}
    /\ xl' = XlFindTable(ws)
    /\ pc' = IF pc = "both_start" THEN "both_xl_done" ELSE "both_done"
    /\ UNCHANGED <<docxVars, items, company, err, saved, ws>>

NextBoth ==
    \/ BothDocx
    \/ BothXl

InitBoth ==
    /\ \E ls \in HeaderLabels :
          /\ tables = <<LabelsTable(ls)>>
          /\ orig = <<LabelsTable(ls)>>
          /\ ws = LabelsSheet(ls)
          /\ scan = ls
    /\ xl = [ok |-> FALSE, header_row |-> 0, col_map |-> <<>>]
    /\ items = SubSeq(Catalogue, 1, 1)
    /\ company = TheCompany
    /\ pc = "both_start"
    /\ err = ""
    /\ saved = FALSE
    /\ goods = 0
    /\ header_end_row = 0
    /\ col_map = <<>>
    /\ sample_row_idx = 0
    /\ total_rows = <<>>
    /\ deleted_count = 0
    /\ inserted_count = 0
    /\ first_total_after_delete = None
    /\ target_tr = 0
    /\ writes = {}
    /\ runs = <<>>
    /\ batch = <<>>

SpecBoth == InitBoth /\ [][NextBoth]_vars

\* The labels of the header row, as drawn.
LabelsDrawn == {scan[i] : i \in 1..Len(scan)}

\* The header labels a role by one of the drawn labels of that role.
Labels(key) == LabelsDrawn \cap (LabelChoices[key] \ {""}) # {}

\* The header labels name, quantity and at least one of price and amount.
LabelsMinimal == Labels("name") /\ Labels("qty") /\ (Labels("price") \/ Labels("amount"))

\* C25: the spreadsheet backend accepts a header row under the same minimal
\* rule as the word-processing backend: a row labelling name, quantity and at
\* least one of price and amount is accepted also without a unit column or
\* without a price column, and the column maps of the two backends bind the
\* same roles, at the same columns, for the same header labels.
C25_SameHeaderRule ==
    (pc = "both_done" /\ LabelsMinimal) =>
        /\ goods = 1
        /\ xl.ok
        /\ xl.header_row = header_end_row + 1
        /\ \A key \in RoleSet :
              IF key \in DOMAIN col_map
              THEN xl.col_map[key] = col_map[key] + 1
              ELSE xl.col_map[key] = NoCol

\* The same property on the headers that have a unit and a price column.
SameHeaderRuleWithUnitAndPrice ==
    (pc = "both_done" /\ Labels("unit") /\ Labels("price")) => C25_SameHeaderRule

\* The two backends agree on rejecting the headers that are not minimal.
BothRejectNonMinimal ==
    (pc = "both_done" /\ ~LabelsMinimal) => (goods = 0 /\ ~xl.ok)

-----------------------------------------------------------------------------
(* The Generate button and the worker threads (gui.py) *)

\* The most clicks on the Generate button.
MaxClicks == 4

\* A button that on_generate leaves enabled when it starts the worker.
ButtonLeftEnabled(b) == b

\* self.btn_generate.config(state=tk.DISABLED)
ButtonDisabled(b) == "disabled"

\* A click on the Generate button. Tk does not call the command of a disabled
\* button. on_generate returns early, starting nothing, when no input file is
\* chosen, no company is loaded or the variant settings are invalid; otherwise
\* it disables the button and starts a worker thread.
OnGenerate ==
    /\ pc = "gui"
    /\ batch.clicks < MaxClicks
    /\ \E valid \in BOOLEAN :
          batch' =
              IF batch.button = "disabled" \/ ~valid
              THEN [batch EXCEPT !.clicks = @ + 1]
              ELSE [batch EXCEPT !.clicks = @ + 1,
                                 !.button = ButtonDisabled(@),
                                 !.workers = Append(@, [at |-> "try", outcome |-> ""])]
    /\ UNCHANGED <<batchFrame, pc, err>>

\* The try block of _generate_worker runs to its end or raises.
WorkerTry ==
    /\ pc = "gui"
    /\ \E w \in 1..Len(batch.workers) :
          /\ batch.workers[w].at = "try"
          /\ \E outcome \in {"ok", "ValueError", "Exception"} :
                batch' = [batch EXCEPT !.workers[w] =
                             [at |-> IF outcome = "ok" THEN "finally" ELSE "except",
                              outcome |-> outcome]]
    /\ UNCHANGED <<batchFrame, pc, err>>

\* except ValueError / except Exception: the error is logged and a message
\* box is scheduled.
WorkerExcept ==
    /\ pc = "gui"
    /\ \E w \in 1..Len(batch.workers) :
          /\ batch.workers[w].at = "except"
          /\ batch' = [batch EXCEPT !.workers[w].at = "finally",
                                    !.shown = @ + 1]
    /\ UNCHANGED <<batchFrame, pc, err>>

\* finally: self.root.after(0, self._ui_finish); the worker ends.
WorkerFinally ==
    /\ pc = "gui"
    /\ \E w \in 1..Len(batch.workers) :
          /\ batch.workers[w].at = "finally"
          /\ batch' = [batch EXCEPT !.workers[w].at = "done",
                                    !.scheduled = @ + 1]
    /\ UNCHANGED <<batchFrame, pc, err>>

\* The UI thread runs a scheduled _ui_finish.
UiFinishCallback ==
    /\ pc = "gui"
    /\ batch.ran < batch.scheduled
    /\ batch' = [batch EXCEPT !.button = "normal", !.ran = @ + 1]
    /\ UNCHANGED <<batchFrame, pc, err>>

NextGui ==
    \/ OnGenerate
    \/ WorkerTry
    \/ WorkerExcept
    \/ WorkerFinally
    \/ UiFinishCallback

\* The window after construction: the button is enabled, no worker runs.
InitGui ==
    /\ batch = [button |-> "normal", clicks |-> 0, workers |-> <<>>, shown |-> 0,
                scheduled |-> 0, ran |-> 0]
    /\ pc = "gui"
    /\ err = ""
    /\ saved = FALSE
    /\ items = <<>>
    /\ company = TheCompany
    /\ ws = <<>>
    /\ xl = <<>>
    /\ tables = <<>>
    /\ orig = <<>>
    /\ goods = 0
    /\ header_end_row = 0
    /\ col_map = <<>>
    /\ sample_row_idx = 0
    /\ total_rows = <<>>
    /\ deleted_count = 0
    /\ inserted_count = 0
    /\ first_total_after_delete = None
    /\ target_tr = 0
    /\ scan = <<>>
    /\ writes = {}
    /\ runs = <<>>

SpecGui == InitGui /\ [][NextGui]_vars

\* The workers that have not ended.
LiveWorkers == {w \in 1..Len(batch.workers) : batch.workers[w].at # "done"}

\* The workers that have ended.
EndedWorkers == {w \in 1..Len(batch.workers) : batch.workers[w].at = "done"}

=============================================================================
